---- MODULE Spec2Model ----
(***************************************************************************)
(* A model of the SCIM mapping engine of scim-magic-mapper                 *)
(* (src/src/utils/apiService.ts, class ScimUtils).                         *)
(*                                                                         *)
(* JSON documents live in a heap of objects and arrays, because the code   *)
(* stores references: a value copied from the source document into the     *)
(* SCIM document is the same node, not a copy.  Strings (path strings,     *)
(* property keys, string values) are sequences of one-character strings,   *)
(* so that the code's split / regular-expression parsing of a path is      *)
(* computed, not assumed.                                                  *)
(***************************************************************************)
EXTENDS Integers, Sequences, FiniteSets, TLC

VARIABLES
    config,      \* ScimUtils.config: [mappings |-> sequence of MappingItem]
    heap,        \* the JavaScript heap: sequence of nodes, address = index
    heap0,       \* the heap as it was before the first operation
    pre,         \* the heap as it was when the last operation was called
    sourceData,  \* the source record (a JS value), fetched from the API
    scimDoc,     \* the document transformToScim returned and transformFromScim reads;
                 \* for setNestedValue, its obj argument
    stamps,      \* the two clock readings of the last transformToScim
    typeArg,     \* the resourceType handed to transformToScim
    pathArg,     \* the path handed to getNestedValue / setNestedValue
    valueArg,    \* the value handed to setNestedValue
    result,      \* the value the last operation returned
    outcome,     \* "none" | "returned" | "threw"
    callLog,     \* what the last transformToScim did: writes and logged errors
    lastOp,      \* the operation that ran last
    clock,       \* the wall clock read by new Date()
    operation,   \* EndpointTester: the operation selected, 'get' at first
    testResults, \* EndpointTester: the SCIM result shown
    rawData,     \* EndpointTester: the response as fetched
    error,       \* EndpointTester: the error message shown, or null
    appState,    \* ApplicationProvider: the state of the last render, which the
                 \* callbacks of that render read
    appNext,     \* ApplicationProvider: the state with the queued updaters applied
    appStore,    \* localStorage['scim-mapper-applications']: the list saved
    appMounted,  \* ApplicationProvider: mounted, its load effect has run
    appDeleted,  \* the ids deleteApplication was called with
    appNextId,   \* the ids generateUniqueId has handed out so far, plus one
    svcConfig,   \* APIService.config
    svcConfigStore, \* localStorage['scim_mapper_api_config']
    accessToken, \* APIService.accessToken: the config whose credentials obtained it
    tokenExpiry, \* APIService.tokenExpiry
    history,     \* APIService.history, newest first
    historyStore,\* localStorage['scim_mapper_api_history']
    requestLog,  \* the items addHistoryItem was handed since the last clearHistory,
                 \* newest first
    calls,       \* the fetchData calls made: where each one is, what it sent
    svcNow,      \* the wall clock read by Date.now() and new Date()
    sampleSourceData, \* MappingPreview: the sample source record shown
    sampleScimData,   \* MappingPreview: the SCIM document shown
    previewState,     \* MappingPreview: "none" | "rendered" | "threw"
    mappingRows, \* SchemaMapper: the mappings state of the last render
    nextMappings,\* SchemaMapper: the value of the last setMappings since then
    fetching,    \* SchemaMapper: the mappings captured by the field fetches in flight
    saving,      \* SchemaMapper: the mappings captured by the save timers running
    saved,       \* the mapping set onMappingSave was last called with
    toasts,      \* the error toasts shown
    edits,       \* the number of editor operations so far
    indexState,  \* Index: apiConfig, mappings and isConfigured of the last render
    indexNext,   \* Index: the same with the values set since then
    indexMounted,\* Index: mounted, its load effect has run
    scimStore    \* localStorage['scim_mapper_config']

vars == <<config, heap, heap0, pre, sourceData, scimDoc, stamps, typeArg, pathArg, valueArg,
          result, outcome, callLog, lastOp, clock, operation, testResults, rawData, error,
          appState, appNext, appStore, appMounted, appDeleted, appNextId,
          svcConfig, svcConfigStore, accessToken, tokenExpiry, history, historyStore,
          requestLog, calls, svcNow, sampleSourceData, sampleScimData, previewState,
          mappingRows, nextMappings, fetching, saving, saved, toasts, edits,
          indexState, indexNext, indexMounted, scimStore>>

\* the state of the mapping engine and of the calls made on it
engine == <<config, heap, heap0, pre, sourceData, scimDoc, stamps, typeArg, pathArg, valueArg,
            result, outcome, callLog, lastOp, clock>>

\* the state of the EndpointTester component
tester == <<operation, testResults, rawData, error>>

\* the state of the ApplicationProvider and of its store
provider == <<appState, appNext, appStore, appMounted, appDeleted, appNextId>>

\* the state of the APIService singleton, of its stores and of its calls
service == <<svcConfig, svcConfigStore, accessToken, tokenExpiry, history, historyStore,
             requestLog, calls, svcNow>>

\* the state of the MappingPreview component
preview == <<sampleSourceData, sampleScimData, previewState>>

\* the state of the SchemaMapper component and of its onMappingSave prop
mapper == <<mappingRows, nextMappings, fetching, saving, saved, toasts, edits>>

\* the state of the Index page, and what ScimUtils.setConfig stored
page == <<indexState, indexNext, indexMounted, scimStore>>

\* the components around the engine and its tester
components == <<provider, service, preview, mapper, page>>

----------------------------------------------------------------------------
(* Bounds of the model. *)

\* longest rule list in a config
MaxRules == 2
\* largest array index written in a generated path
MaxIndex == 2
\* depth to which two documents are compared structurally
MaxDepth == 4
\* last clock tick
MaxClock == 1
\* a two-digit array index written in a generated path
BigIndex == 10

----------------------------------------------------------------------------
(* JavaScript values. *)

Undef == [t |-> "undefined", s |-> <<>>, n |-> 0]
Null == [t |-> "null", s |-> <<>>, n |-> 0]
Str(cs) == [t |-> "string", s |-> cs, n |-> 0]
Num(k) == [t |-> "number", s |-> <<>>, n |-> k]
Bool(b) == [t |-> "boolean", s |-> <<>>, n |-> IF b THEN 1 ELSE 0]
Ref(a) == [t |-> "object", s |-> <<>>, n |-> a]

IsRef(v) == v.t = "object"
IsNullish(v) == v.t \in {"undefined", "null"}

\* ToBoolean: undefined, null, false, 0 and "" are falsy
Truthy(v) ==
    CASE v.t = "undefined" -> FALSE
      [] v.t = "null" -> FALSE
      [] v.t = "boolean" -> v.n = 1
      [] v.t = "number" -> v.n # 0
      [] v.t = "string" -> Len(v.s) > 0
      [] OTHER -> TRUE

\* typeof v !== 'object'  (typeof null is 'object')
TypeofObject(v) == v.t \in {"object", "null"}

EmptyProps == [k \in {} |-> Undef]
ObjNode(props) == [kind |-> "object", props |-> props, elems |-> <<>>]
ArrNode(elems) == [kind |-> "array", props |-> EmptyProps, elems |-> elems]

WithProp(props, key, v) ==
    [k \in (DOMAIN props) \cup {key} |-> IF k = key THEN v ELSE props[k]]

Digits == <<"0", "1", "2", "3", "4", "5", "6", "7", "8", "9">>
IsDigit(c) == \E d \in 1..10 : Digits[d] = c
DigitVal(c) == (CHOOSE d \in 1..10 : Digits[d] = c) - 1

\* /^\d+$/.test(part)
AllDigits(cs) == Len(cs) > 0 /\ \A i \in 1..Len(cs) : IsDigit(cs[i])

RECURSIVE ParseInt(_)
\* parseInt(part, 10) of a digit string
ParseInt(cs) ==
    IF Len(cs) = 0 THEN 0
    ELSE 10 * ParseInt(SubSeq(cs, 1, Len(cs) - 1)) + DigitVal(cs[Len(cs)])

RECURSIVE NumToString(_)
\* String(i) of a non-negative integer: the property key of a numeric index
NumToString(i) ==
    IF i < 10 THEN <<Digits[i + 1]>>
    ELSE NumToString(i \div 10) \o <<Digits[(i % 10) + 1]>>

\* a property key that names an array element: canonical decimal, no leading 0
IsIndexKey(key) == AllDigits(key) /\ (Len(key) > 1 => key[1] # "0")

----------------------------------------------------------------------------
(* Property access.  A read yields [err, v]; a write yields [err, h].      *)
(* err is TRUE where JavaScript throws a TypeError.                        *)

Val(v) == [err |-> FALSE, v |-> v]
ThrowV == [err |-> TRUE, v |-> Undef]
Heap(h) == [err |-> FALSE, h |-> h]
ThrowH(h) == [err |-> TRUE, h |-> h]

\* current[key]
GetProp(h, cur, key) ==
    CASE IsNullish(cur) -> ThrowV
      [] cur.t = "string" ->
            IF IsIndexKey(key) /\ ParseInt(key) < Len(cur.s)
            THEN Val(Str(<<cur.s[ParseInt(key) + 1]>>))
            ELSE Val(Undef)
      [] IsRef(cur) ->
            LET node == h[cur.n] IN
            IF node.kind = "array" /\ IsIndexKey(key)
            THEN IF ParseInt(key) < Len(node.elems)
                 THEN Val(node.elems[ParseInt(key) + 1])
                 ELSE Val(Undef)
            ELSE IF key \in DOMAIN node.props
                 THEN Val(node.props[key])
                 ELSE Val(Undef)
      [] OTHER -> Val(Undef)

\* an assignment that keeps the value a key already holds
SetPropIfAbsent(h, cur, key, v) ==
    IF ~IsRef(cur) THEN ThrowH(h)
    ELSE IF GetProp(h, cur, key).v # Undef THEN Heap(h)
    ELSE
        LET node == h[cur.n] IN
        IF node.kind = "array" /\ IsIndexKey(key)
        THEN Heap([h EXCEPT ![cur.n].elems =
                      [j \in 1..(ParseInt(key) + 1) |->
                          IF j = ParseInt(key) + 1 THEN v
                          ELSE IF j <= Len(node.elems) THEN node.elems[j] ELSE Undef]])
        ELSE Heap([h EXCEPT ![cur.n].props = WithProp(node.props, key, v)])

\* current[key] = v, in strict mode (a class body is strict code)
SetProp(h, cur, key, v) ==
    IF ~IsRef(cur) THEN ThrowH(h)
    ELSE
        LET node == h[cur.n] IN
        IF node.kind = "array" /\ IsIndexKey(key)
        THEN LET i == ParseInt(key)
                 n == Len(node.elems)
                 elems == [j \in 1..(IF i < n THEN n ELSE i + 1) |->
                             IF j = i + 1 THEN v
                             ELSE IF j <= n THEN node.elems[j] ELSE Undef]
             IN Heap([h EXCEPT ![cur.n].elems = elems])
        ELSE Heap([h EXCEPT ![cur.n].props = WithProp(node.props, key, v)])

\* current.length
GetLength(h, cur) ==
    CASE IsNullish(cur) -> ThrowV
      [] cur.t = "string" -> Val(Num(Len(cur.s)))
      [] IsRef(cur) /\ h[cur.n].kind = "array" -> Val(Num(Len(h[cur.n].elems)))
      [] OTHER -> Val(Undef)

\* allocation of a fresh node: the new heap and the reference to the node
Alloc(h, node) == [h |-> Append(h, node), v |-> Ref(Len(h) + 1)]

----------------------------------------------------------------------------
(* String helpers: what split, includes, substring and matchAll compute.   *)

\* path.includes(c)
Includes(cs, c) == \E i \in 1..Len(cs) : cs[i] = c

\* position of the first c in cs, 0 when there is none
FirstIndex(cs, c) ==
    IF Includes(cs, c) THEN CHOOSE i \in 1..Len(cs) :
                              cs[i] = c /\ \A j \in 1..(i - 1) : cs[j] # c
    ELSE 0

\* position of the last c in cs, 0 when there is none
LastIndex(cs, c) ==
    IF Includes(cs, c) THEN CHOOSE i \in 1..Len(cs) :
                              cs[i] = c /\ \A j \in (i + 1)..Len(cs) : cs[j] # c
    ELSE 0

RECURSIVE Split(_, _)
\* cs.split(c): the pieces between occurrences of c, empty pieces kept
Split(cs, c) ==
    LET i == FirstIndex(cs, c) IN
    IF i = 0 THEN <<cs>>
    ELSE <<SubSeq(cs, 1, i - 1)>> \o Split(SubSeq(cs, i + 1, Len(cs)), c)

IsSeparator(c) == c \in {"[", "]", "."}

RECURSIVE SplitSeparators(_)
\* path.split(/[\[\].]+/).filter(Boolean): the maximal runs of characters
\* that are none of [ ] .
SplitSeparators(cs) ==
    IF Len(cs) = 0 THEN <<>>
    ELSE IF IsSeparator(cs[1]) THEN SplitSeparators(Tail(cs))
    ELSE LET stop == IF \E i \in 1..Len(cs) : IsSeparator(cs[i])
                     THEN CHOOSE i \in 1..Len(cs) :
                            IsSeparator(cs[i]) /\ \A j \in 1..(i - 1) : ~IsSeparator(cs[j])
                     ELSE Len(cs) + 1
         IN <<SubSeq(cs, 1, stop - 1)>> \o SplitSeparators(SubSeq(cs, stop, Len(cs)))

\* length of the run of digits that starts at position p of cs
DigitRun(cs, p) ==
    IF p > Len(cs) \/ ~IsDigit(cs[p]) THEN 0
    ELSE LET ends == {q \in p..Len(cs) : \A j \in p..q : IsDigit(cs[j])}
         IN Cardinality(ends)

RECURSIVE MatchAll(_, _)
\* [...rest.matchAll(/\[(\d+)\]/g)] from position p on: the captured numbers
MatchAll(cs, p) ==
    IF p > Len(cs) THEN <<>>
    ELSE LET d == DigitRun(cs, p + 1) IN
         IF cs[p] = "[" /\ d > 0 /\ p + d + 1 <= Len(cs) /\ cs[p + d + 1] = "]"
         THEN <<ParseInt(SubSeq(cs, p + 1, p + d))>> \o MatchAll(cs, p + d + 2)
         ELSE MatchAll(cs, p + 1)

\* s.replace(/^\./, '')
StripLeadingDot(cs) == IF Len(cs) > 0 /\ cs[1] = "." THEN Tail(cs) ELSE cs

----------------------------------------------------------------------------
(* ScimUtils.getNestedValue *)

RECURSIVE GetBracketWalk(_, _, _, _)
\* the loop of the array-notation branch, from part i on
GetBracketWalk(h, current, parts, i) ==
    IF i > Len(parts) THEN Val(current)
    ELSE LET part == parts[i] IN
         IF AllDigits(part)
         THEN IF ~(IsRef(current) /\ h[current.n].kind = "array") THEN Val(Undef)
              ELSE IF ParseInt(part) >= Len(h[current.n].elems) THEN Val(Undef)
              ELSE GetBracketWalk(h, h[current.n].elems[ParseInt(part) + 1], parts, i + 1)
         ELSE IF IsNullish(current) \/ ~TypeofObject(current) THEN Val(Undef)
              ELSE LET r == GetProp(h, current, part) IN
                   IF r.err THEN r ELSE GetBracketWalk(h, r.v, parts, i + 1)

RECURSIVE GetDottedWalkUnguarded(_, _, _, _)
\* GetDottedWalk with the guard reduced to typeof current !== 'object': null
\* passes it, and current[part] on null throws
GetDottedWalkUnguarded(h, current, parts, i) ==
    IF i > Len(parts) THEN Val(current)
    ELSE IF ~TypeofObject(current) THEN Val(Undef)
    ELSE LET r == GetProp(h, current, parts[i]) IN
         IF r.err THEN r ELSE GetDottedWalkUnguarded(h, r.v, parts, i + 1)

RECURSIVE GetDottedWalk(_, _, _, _)
\* the loop of the dot-notation branch, from part i on
GetDottedWalk(h, current, parts, i) ==
    IF i > Len(parts) THEN Val(current)
    ELSE IF IsNullish(current) \/ ~TypeofObject(current) THEN Val(Undef)
    ELSE LET r == GetProp(h, current, parts[i]) IN
         IF r.err THEN r ELSE GetDottedWalk(h, r.v, parts, i + 1)

getNestedValue(h, obj, path) ==
    IF Includes(path, "[")
    THEN GetBracketWalk(h, obj, SplitSeparators(path), 1)
    ELSE GetDottedWalk(h, obj, Split(path, "."), 1)

----------------------------------------------------------------------------
(* ScimUtils.setNestedValue.  Steps yield [err, h, v]: whether a TypeError *)
(* was thrown, the heap, and the node the walk now stands on.              *)

Step(h, v) == [err |-> FALSE, h |-> h, v |-> v]
ThrowS(h) == [err |-> TRUE, h |-> h, v |-> Undef]

\* if (!current[key]) { current[key] = <fresh node> }  current = current[key]
EnsureChild(h, current, key, node) ==
    LET r == GetProp(h, current, key) IN
    IF r.err THEN ThrowS(h)
    ELSE IF Truthy(r.v) THEN Step(h, r.v)
    ELSE LET a == Alloc(h, node)
             w == SetProp(a.h, current, key, a.v)
         IN IF w.err THEN ThrowS(h) ELSE Step(w.h, GetProp(w.h, current, key).v)

\* Push with null as the padding value: current.push(null)
PushNull(h, current) ==
    IF IsRef(current) /\ h[current.n].kind = "array"
    THEN Heap([h EXCEPT ![current.n].elems = Append(@, Null)])
    ELSE ThrowH(h)

\* current.push({})
Push(h, current) ==
    IF IsRef(current) /\ h[current.n].kind = "array"
    THEN LET a == Alloc(h, ObjNode(EmptyProps)) IN
         Heap([a.h EXCEPT ![current.n].elems = Append(@, a.v)])
    ELSE ThrowH(h)

RECURSIVE PadLoop(_, _, _)
\* while (current.length <= index) { current.push({}) }
PadLoop(h, current, index) ==
    LET len == GetLength(h, current) IN
    IF len.err THEN ThrowH(h)
    ELSE IF len.v.t = "number" /\ len.v.n <= index
    THEN LET p == Push(h, current) IN
         IF p.err THEN p ELSE PadLoop(p.h, current, index)
    ELSE Heap(h)

RECURSIVE IndexLoop(_, _, _, _)
\* for (i = 0; i < matches.length - 1; i++): pad, then current = current[index]
IndexLoop(h, current, matches, i) ==
    IF i > Len(matches) - 1 THEN Step(h, current)
    ELSE LET pad == PadLoop(h, current, matches[i]) IN
         IF pad.err THEN ThrowS(pad.h)
         ELSE LET r == GetProp(pad.h, current, NumToString(matches[i])) IN
              IF r.err THEN ThrowS(pad.h)
              ELSE IndexLoop(pad.h, r.v, matches, i + 1)

RECURSIVE WalkCreate(_, _, _, _, _)
\* the loop over the dotted parts, creating {} where the child is falsy, and
\* the final assignment current[parts[last]] = value
WalkCreate(h, current, parts, i, value) ==
    IF i >= Len(parts) THEN SetProp(h, current, parts[Len(parts)], value)
    ELSE LET e == EnsureChild(h, current, parts[i], ObjNode(EmptyProps)) IN
         IF e.err THEN ThrowH(e.h)
         ELSE WalkCreate(e.h, e.v, parts, i + 1, value)

\* "Handle the last segment": pad to lastIndex, then store at the field path
\* behind it or at the index itself
LastSegment(h, current, lastIndex, fieldPath, value) ==
    LET pad == PadLoop(h, current, lastIndex) IN
    IF pad.err THEN pad
    ELSE IF Len(fieldPath) > 0
    THEN LET e == EnsureChild(pad.h, current, NumToString(lastIndex), ObjNode(EmptyProps)) IN
         IF e.err THEN ThrowH(e.h)
         ELSE WalkCreate(e.h, e.v, Split(fieldPath, "."), 1, value)
    ELSE SetProp(pad.h, current, NumToString(lastIndex), value)

SetBracket(h, obj, path, value) ==
    LET main == SubSeq(path, 1, FirstIndex(path, "[") - 1)
        rest == SubSeq(path, Len(main) + 1, Len(path))
        matches == MatchAll(rest, 1)
        fieldPath == StripLeadingDot(SubSeq(rest, LastIndex(rest, "]") + 1, Len(rest)))
        e == EnsureChild(h, obj, main, ArrNode(<<>>))
    IN IF e.err THEN ThrowH(e.h)
       ELSE LET l == IndexLoop(e.h, e.v, matches, 1) IN
            IF l.err THEN ThrowH(l.h)
            ELSE IF Len(matches) > 0
            THEN LastSegment(l.h, l.v, matches[Len(matches)], fieldPath, value)
            ELSE Heap(l.h)

setNestedValue(h, obj, path, value) ==
    IF Includes(path, "[")
    THEN SetBracket(h, obj, path, value)
    ELSE WalkCreate(h, obj, Split(path, "."), 1, value)

----------------------------------------------------------------------------
(* Documents compared by structure: the tree below a value, to depth d.    *)

Leaf(t, cs, k) == [t |-> t, s |-> cs, n |-> k, props |-> EmptyProps, elems |-> <<>>]

RECURSIVE Deep(_, _, _)
Deep(h, v, d) ==
    IF ~IsRef(v) THEN Leaf(v.t, v.s, v.n)
    ELSE IF d = 0 THEN Leaf("cut", <<>>, 0)
    ELSE LET node == h[v.n] IN
         [t |-> node.kind, s |-> <<>>, n |-> 0,
          props |-> [k \in DOMAIN node.props |-> Deep(h, node.props[k], d - 1)],
          elems |-> [i \in 1..Len(node.elems) |-> Deep(h, node.elems[i], d - 1)]]

RECURSIVE Reach(_, _, _)
\* the addresses of the nodes reachable from the values vs, given those seen
Reach(h, vs, seen) ==
    LET new == {v.n : v \in {w \in vs : IsRef(w)}} \ seen IN
    IF new = {} THEN seen
    ELSE Reach(h,
               UNION {{h[a].props[k] : k \in DOMAIN h[a].props}
                        \cup {h[a].elems[i] : i \in 1..Len(h[a].elems)} : a \in new},
               seen \cup new)

----------------------------------------------------------------------------
(* Transformation expressions.  new Function('value', `return ${expr}`) is *)
(* given by cases on the expression text; err is TRUE when the expression  *)
(* fails to compile or throws when called.                                 *)

\* the expression SchemaMapper generates for displayName
\* (src/src/components/SchemaMapper.tsx, updateDefaultMappings)
DefaultDisplayName == "value + \" \" + (source.lastName || \"\")"

EvalTransformation(expr, value) ==
    CASE expr = "Boolean(value)" -> Val(Bool(Truthy(value)))
      \* the function has the one parameter value and is called with the one
      \* argument value: source is an unresolvable name, a ReferenceError
      \* when called
      [] expr = DefaultDisplayName -> ThrowV
      [] expr = "null.x" -> ThrowV           \* TypeError when called
      [] expr = "value +" -> ThrowV          \* SyntaxError when compiled
      [] expr = "undefined" -> Val(Undef)
      [] expr = "true" -> Val(Bool(TRUE))
      [] OTHER -> Val(value)                 \* "value"

----------------------------------------------------------------------------
(* ScimUtils.transformToScim and transformFromScim *)

KSchemas == <<"s", "c", "h", "e", "m", "a", "s">>
KMeta == <<"m", "e", "t", "a">>
KResourceType == <<"r", "e", "s", "o", "u", "r", "c", "e", "T", "y", "p", "e">>
KCreated == <<"c", "r", "e", "a", "t", "e", "d">>
KLastModified == <<"l", "a", "s", "t", "M", "o", "d", "i", "f", "i", "e", "d">>
UserType == <<"U", "s", "e", "r">>
GroupType == <<"G", "r", "o", "u", "p">>
UserSchema ==
    <<"u", "r", "n", ":", "i", "e", "t", "f", ":", "p", "a", "r",
      "a", "m", "s", ":", "s", "c", "i", "m", ":", "s", "c", "h",
      "e", "m", "a", "s", ":", "c", "o", "r", "e", ":", "2", ".",
      "0", ":", "U", "s", "e", "r">>
GroupSchema ==
    <<"u", "r", "n", ":", "i", "e", "t", "f", ":", "p", "a", "r",
      "a", "m", "s", ":", "s", "c", "i", "m", ":", "s", "c", "h",
      "e", "m", "a", "s", ":", "c", "o", "r", "e", ":", "2", ".",
      "0", ":", "G", "r", "o", "u", "p">>

\* new Date().toISOString() at clock reading t
IsoString(t) == Str(<<"T">> \o NumToString(t))

\* what one rule did: the value it extracted (filled in by ApplyExtracted),
\* whether setNestedValue was called and with what value, and whether
\* console.error was called
RuleLog(wrote, value, logged) ==
    [raw |-> Undef, wrote |-> wrote, value |-> value, logged |-> logged]

\* the outcome of one rule: w is what setNestedValue yielded
RuleDone(w, log) == [err |-> w.err, h |-> w.h, log |-> log]

\* WriteValue with a placeholder: a rule without a value writes null
WriteValueOrNull(h, scimData, mapping, value, logged) ==
    IF value # Undef
    THEN RuleDone(setNestedValue(h, scimData, mapping.scimAttribute, value),
                  RuleLog(TRUE, value, logged))
    ELSE RuleDone(setNestedValue(h, scimData, mapping.scimAttribute, Null),
                  RuleLog(TRUE, Null, logged))

\* WriteValue with the loose guard value != null: null is skipped as well
WriteValueLooseGuard(h, scimData, mapping, value, logged) ==
    IF ~IsNullish(value)
    THEN RuleDone(setNestedValue(h, scimData, mapping.scimAttribute, value),
                  RuleLog(TRUE, value, logged))
    ELSE RuleDone(Heap(h), RuleLog(FALSE, Undef, logged))

\* if (value !== undefined) { this.setNestedValue(scimData, scimAttribute, value) }
WriteValue(h, scimData, mapping, value, logged) ==
    IF value # Undef
    THEN RuleDone(setNestedValue(h, scimData, mapping.scimAttribute, value),
                  RuleLog(TRUE, value, logged))
    ELSE RuleDone(Heap(h), RuleLog(FALSE, Undef, logged))

\* try { value = transform(value) } catch (error) { console.error(...) }:
\* tr is what the expression yielded; when it threw, value keeps what it held
AfterTransformation(h, scimData, mapping, value, tr) ==
    WriteValue(h, scimData, mapping, IF tr.err THEN value ELSE tr.v, tr.err)

\* the expression evaluated whatever the extracted value is
ApplyTransformationAlways(h, scimData, mapping, value) ==
    IF mapping.transformation # ""
    THEN AfterTransformation(h, scimData, mapping, value,
                             EvalTransformation(mapping.transformation, value))
    ELSE WriteValue(h, scimData, mapping, value, FALSE)

\* if (mapping.transformation && value !== undefined) { ... }, then the write
ApplyTransformation(h, scimData, mapping, value) ==
    IF mapping.transformation # "" /\ value # Undef
    THEN AfterTransformation(h, scimData, mapping, value,
                             EvalTransformation(mapping.transformation, value))
    ELSE WriteValue(h, scimData, mapping, value, FALSE)

\* the rule applied to the value it extracted
ApplyExtracted(h, scimData, mapping, raw) ==
    [ApplyTransformation(h, scimData, mapping, raw) EXCEPT !.log.raw = raw]

\* the body of the forEach callback of transformToScim, for one mapping
ApplyMapping(h, scimData, source, mapping) ==
    IF Len(mapping.sourceField) = 0
    THEN RuleDone(Heap(h), RuleLog(FALSE, Undef, FALSE))
    ELSE ApplyExtracted(h, scimData, mapping,
                        getNestedValue(h, source, mapping.sourceField).v)

RECURSIVE ApplyMappings(_, _, _, _, _, _)
\* after rule i, which did r: an exception ends the forEach, otherwise on to
\* rule i + 1
AfterMapping(r, scimData, source, mappings, i, log) ==
    IF r.err THEN [err |-> TRUE, h |-> r.h, log |-> Append(log, r.log)]
    ELSE ApplyMappings(r.h, scimData, source, mappings, i + 1, Append(log, r.log))

\* this.config.mappings.forEach(...) from rule i on
ApplyMappings(h, scimData, source, mappings, i, log) ==
    IF i > Len(mappings) THEN [err |-> FALSE, h |-> h, log |-> log]
    ELSE AfterMapping(ApplyMapping(h, scimData, source, mappings[i]),
                      scimData, source, mappings, i, log)

Threw(h, log) == [err |-> TRUE, h |-> h, v |-> Undef, log |-> log]

\* const scimData = {schemas}, schemas = [uri]: two fresh nodes
NewScimData(h, uri) ==
    [h |-> h \o <<ArrNode(<<Str(uri)>>),
                  ObjNode(WithProp(EmptyProps, KSchemas, Ref(Len(h) + 1)))>>,
     v |-> Ref(Len(h) + 2)]

\* {resourceType, created: new Date().toISOString(), lastModified: ...}
MetaNode(resourceType, t1, t2) ==
    ObjNode(WithProp(WithProp(WithProp(EmptyProps,
                KResourceType, Str(resourceType)),
                KCreated, IsoString(t1)),
                KLastModified, IsoString(t2)))

\* scimData.meta = meta; return scimData
AddMeta(meta, scimData, log) ==
    [err |-> FALSE, h |-> SetProp(meta.h, scimData, KMeta, meta.v).h,
     v |-> scimData, log |-> log]

\* after the forEach, which did m
AfterMappings(m, scimData, resourceType, t1, t2) ==
    IF m.err THEN Threw(m.h, m.log)
    ELSE AddMeta(Alloc(m.h, MetaNode(resourceType, t1, t2)), scimData, m.log)

\* the mappings and the metadata, on the fresh scimData
FillScimData(scimData, cfg, source, resourceType, t1, t2) ==
    AfterMappings(ApplyMappings(scimData.h, scimData.v, source, cfg.mappings, 1, <<>>),
                  scimData.v, resourceType, t1, t2)

\* the switch without its default branch: any other resourceType goes on with
\* schemas = []
transformToScimNoDefault(h, cfg, source, resourceType, t1, t2) ==
    IF ~cfg.isSet THEN Threw(h, <<>>)
    ELSE IF resourceType = UserType
    THEN FillScimData(NewScimData(h, UserSchema), cfg, source, resourceType, t1, t2)
    ELSE IF resourceType = GroupType
    THEN FillScimData(NewScimData(h, GroupSchema), cfg, source, resourceType, t1, t2)
    ELSE FillScimData(
            [h |-> h \o <<ArrNode(<<>>),
                          ObjNode(WithProp(EmptyProps, KSchemas, Ref(Len(h) + 1)))>>,
             v |-> Ref(Len(h) + 2)],
            cfg, source, resourceType, t1, t2)

\* t1 and t2 are the clock readings of the two new Date() calls
transformToScim(h, cfg, source, resourceType, t1, t2) ==
    IF ~cfg.isSet THEN Threw(h, <<>>)
    ELSE IF resourceType = UserType
    THEN FillScimData(NewScimData(h, UserSchema), cfg, source, resourceType, t1, t2)
    ELSE IF resourceType = GroupType
    THEN FillScimData(NewScimData(h, GroupSchema), cfg, source, resourceType, t1, t2)
    ELSE Threw(h, <<>>)

RECURSIVE ReverseMappings(_, _, _, _, _)
\* after the write of rule i, which yielded w
AfterReverse(w, sourceObj, scimData, mappings, i) ==
    IF w.err THEN w ELSE ReverseMappings(w.h, sourceObj, scimData, mappings, i + 1)

\* the write whatever the value read is
ReverseValueAlways(h, sourceObj, scimData, mappings, i, value) ==
    AfterReverse(setNestedValue(h, sourceObj, mappings[i].sourceField, value),
                 sourceObj, scimData, mappings, i)

\* if (value !== undefined) { this.setNestedValue(sourceData, sourceField, value) }
ReverseValue(h, sourceObj, scimData, mappings, i, value) ==
    IF value # Undef
    THEN AfterReverse(setNestedValue(h, sourceObj, mappings[i].sourceField, value),
                      sourceObj, scimData, mappings, i)
    ELSE ReverseMappings(h, sourceObj, scimData, mappings, i + 1)

\* the forEach of transformFromScim from rule i on
ReverseMappings(h, sourceObj, scimData, mappings, i) ==
    IF i > Len(mappings) THEN Heap(h)
    ELSE IF Len(mappings[i].scimAttribute) > 0 /\ Len(mappings[i].sourceField) > 0
    THEN ReverseValue(h, sourceObj, scimData, mappings, i,
                      getNestedValue(h, scimData, mappings[i].scimAttribute).v)
    ELSE ReverseMappings(h, sourceObj, scimData, mappings, i + 1)

\* return sourceData, after the forEach, which yielded r
Reversed(r, sourceObj) ==
    IF r.err THEN Threw(r.h, <<>>)
    ELSE [err |-> FALSE, h |-> r.h, v |-> sourceObj, log |-> <<>>]

\* the reverse mappings on the fresh sourceData
FillSourceData(sourceObj, cfg, scimData) ==
    Reversed(ReverseMappings(sourceObj.h, sourceObj.v, scimData, cfg.mappings, 1),
             sourceObj.v)

transformFromScim(h, cfg, scimData) ==
    IF ~cfg.isSet THEN Threw(h, <<>>)
    ELSE FillSourceData(Alloc(h, ObjNode(EmptyProps)), cfg, scimData)

----------------------------------------------------------------------------
(* ScimUtils.validateSourceData *)

KValid == <<"v", "a", "l", "i", "d">>
KMissing == <<"m", "i", "s", "s", "i", "n", "g">>

\* a test by truthiness instead of the three comparisons
IsMissingFalsy(value) == ~Truthy(value)

\* value === undefined || value === null || value === ''
IsMissing(value) == value = Undef \/ value = Null \/ value = Str(<<>>)

RECURSIVE CheckRequired(_, _, _, _, _)
\* .filter(mapping => mapping.isRequired).forEach(...) from rule i on; missing
\* is the list pushed so far
CheckRequired(h, source, mappings, i, missing) ==
    IF i > Len(mappings) THEN missing
    ELSE IF mappings[i].isRequired
            /\ IsMissing(getNestedValue(h, source, mappings[i].sourceField).v)
    THEN CheckRequired(h, source, mappings, i + 1,
                       Append(missing, Str(mappings[i].sourceField)))
    ELSE CheckRequired(h, source, mappings, i + 1, missing)

\* return {valid: missing.length === 0, missing}: two fresh nodes
ValidationReport(h, missing) ==
    [err |-> FALSE,
     h |-> h \o <<ArrNode(missing),
                  ObjNode(WithProp(WithProp(EmptyProps,
                              KValid, Bool(Len(missing) = 0)),
                              KMissing, Ref(Len(h) + 1)))>>,
     v |-> Ref(Len(h) + 2), log |-> <<>>]

validateSourceData(h, cfg, source) ==
    IF ~cfg.isSet THEN Threw(h, <<>>)
    ELSE ValidationReport(h, CheckRequired(h, source, cfg.mappings, 1, <<>>))

----------------------------------------------------------------------------
(* EndpointTester.handleRunTest (src/src/components/APIConfigForm.tsx):    *)
(* what is shown for a fetched response.                                   *)

KTotalResults == <<"t", "o", "t", "a", "l", "R", "e", "s", "u", "l", "t", "s">>
KItemsPerPage == <<"i", "t", "e", "m", "s", "P", "e", "r", "P", "a", "g", "e">>
KResources == <<"R", "e", "s", "o", "u", "r", "c", "e", "s">>
KResourcesLower == <<"r", "e", "s", "o", "u", "r", "c", "e", "s">>
KData == <<"d", "a", "t", "a">>
ListResponseSchema ==
    <<"u", "r", "n", ":", "i", "e", "t", "f", ":", "p", "a", "r",
      "a", "m", "s", ":", "s", "c", "i", "m", ":", "a", "p", "i",
      ":", "m", "e", "s", "s", "a", "g", "e", "s", ":", "2", ".",
      "0", ":", "L", "i", "s", "t", "R", "e", "s", "p", "o", "n",
      "s", "e">>
\* the text shown when the transformation threw (its prefix; the message of
\* the exception follows it)
TransformFailed ==
    <<"S", "C", "I", "M", " ", "t", "r", "a", "n", "s", "f", "o",
      "r", "m", "a", "t", "i", "o", "n", " ", "f", "a", "i", "l",
      "e", "d", ":", " ">>
\* the message of the exception thrown by apiService.fetchData
FetchFailed == <<"f", "e", "t", "c", "h", " ", "f", "a", "i", "l", "e", "d">>

RECURSIVE MapRecords(_, _, _, _, _, _)
\* a record whose transformation throws is left out of the list
AfterRecordSkipFailed(r, cfg, records, i, ticks, out) ==
    IF r.err THEN MapRecords(r.h, cfg, records, i + 1, ticks, out)
    ELSE MapRecords(r.h, cfg, records, i + 1, ticks, Append(out, r.v))

\* after the callback for record i, which yielded r: an exception ends the map
AfterRecord(r, cfg, records, i, ticks, out) ==
    IF r.err THEN [err |-> TRUE, h |-> r.h, out |-> out]
    ELSE MapRecords(r.h, cfg, records, i + 1, ticks, Append(out, r.v))

\* responseData.map(user => scimUtils.transformToScim(user, 'User')) from
\* record i on; ticks are the clock readings of the calls
MapRecords(h, cfg, records, i, ticks, out) ==
    IF i > Len(records) THEN [err |-> FALSE, h |-> h, out |-> out]
    ELSE AfterRecord(transformToScim(h, cfg, records[i], UserType,
                                     ticks[2 * i - 1], ticks[2 * i]),
                     cfg, records, i, ticks, out)

\* {totalResults, itemsPerPage, schemas: [ListResponse], Resources: scimUsers}
ListEnvelope(m) ==
    IF m.err THEN [err |-> TRUE, h |-> m.h, v |-> Undef]
    ELSE [err |-> FALSE,
          h |-> m.h \o <<ArrNode(m.out),
                         ArrNode(<<Str(ListResponseSchema)>>),
                         ObjNode(WithProp(WithProp(WithProp(WithProp(EmptyProps,
                                    KTotalResults, Num(Len(m.out))),
                                    KItemsPerPage, Num(Len(m.out))),
                                    KSchemas, Ref(Len(m.h) + 2)),
                                    KResources, Ref(Len(m.h) + 1)))>>,
          v |-> Ref(Len(m.h) + 3)]

\* scimUtils.transformToScim(responseData, 'User')
SingleResource(r) == [err |-> r.err, h |-> r.h, v |-> r.v]

\* { data: responseData }
DataWrapper(a) == [err |-> FALSE, h |-> a.h, v |-> a.v]

\* Array.isArray(v)
IsArray(h, v) == IsRef(v) /\ h[v.n].kind = "array"

\* the inner try block, for a truthy responseData
TransformResponse(h, cfg, op, responseData, ticks) ==
    IF op = "get"
    THEN IF IsArray(h, responseData)
         THEN ListEnvelope(MapRecords(h, cfg, h[responseData.n].elems, 1, ticks, <<>>))
         ELSE IF \/ Truthy(GetProp(h, responseData, KResources).v)
                 \/ Truthy(GetProp(h, responseData, KResourcesLower).v)
         THEN [err |-> FALSE, h |-> h, v |-> responseData]
         ELSE IF responseData.t = "object"
         THEN SingleResource(transformToScim(h, cfg, responseData, UserType,
                                             ticks[1], ticks[2]))
         ELSE DataWrapper(Alloc(h, ObjNode(WithProp(EmptyProps, KData, responseData))))
    ELSE SingleResource(transformToScim(h, cfg, responseData, UserType,
                                        ticks[1], ticks[2]))

\* the inner try / catch: the result is shown, or the response as fetched
\* together with the error
Shown(t, responseData) ==
    [h |-> t.h,
     testResults |-> IF t.err THEN responseData ELSE t.v,
     rawData |-> responseData,
     error |-> IF t.err THEN Str(TransformFailed) ELSE Null]

\* handleRunTest of a configured tester: what the component holds afterwards
handleRunTest(h, cfg, op, responseData, fetchFails, ticks) ==
    IF fetchFails
    THEN [h |-> h, testResults |-> Null, rawData |-> Null, error |-> Str(FetchFailed)]
    ELSE IF ~Truthy(responseData)
    THEN [h |-> h, testResults |-> Null, rawData |-> responseData, error |-> Null]
    ELSE Shown(TransformResponse(h, cfg, op, responseData, ticks), responseData)

----------------------------------------------------------------------------
(* The inputs: source records, mapping rules, paths. *)

\* an object node from a sequence of <<key, value>> pairs
Obj(pairs) ==
    ObjNode([k \in {pairs[i][1] : i \in 1..Len(pairs)} |->
                pairs[CHOOSE i \in 1..Len(pairs) : pairs[i][1] = k][2]])

\* {a: "X", b: {c: ["Y"]}, n: null}
DocA ==
    [h |-> <<Obj(<<<<<<"a">>, Str(<<"X">>)>>, <<<<"b">>, Ref(2)>>, <<<<"n">>, Null>>>>),
             Obj(<<<<<<"c">>, Ref(3)>>>>),
             ArrNode(<<Str(<<"Y">>)>>)>>,
     root |-> Ref(1)]

\* {a: 0, b: [{c: "Y"}], n: null}
DocB ==
    [h |-> <<Obj(<<<<<<"a">>, Num(0)>>, <<<<"b">>, Ref(2)>>, <<<<"n">>, Null>>>>),
             ArrNode(<<Ref(3)>>),
             Obj(<<<<<<"c">>, Str(<<"Y">>)>>>>)>>,
     root |-> Ref(1)]

SourceDocuments == {DocA, DocB}

MappingItem(scimAttribute, sourceField, transformation) ==
    [scimAttribute |-> scimAttribute, sourceField |-> sourceField,
     isRequired |-> FALSE, transformation |-> transformation]

\* t, t.c, t[0], t[1].c
TargetPaths == {<<"t">>, <<"t", ".", "c">>, <<"t", "[", "0", "]">>, <<"t", "[", "1", "]", ".", "c">>}
\* a, b, b.c[0], n and the empty (unmapped) source field
SourceFields == {<<"a">>, <<"b">>, <<"b", ".", "c", "[", "0", "]">>, <<"n">>, <<>>}

Rules ==
    {MappingItem(t, f, "") : t \in TargetPaths, f \in SourceFields}
      \cup {MappingItem(t, f, e) : t \in {<<"t">>, <<"t", ".", "c">>}, f \in {<<"a">>, <<"n">>},
                                   e \in {"Boolean(value)", "null.x"}}

RuleSets == UNION {[1..k -> Rules] : k \in 0..MaxRules}

ResourceTypes == {UserType, GroupType, <<"R", "o", "l", "e">>}

NoConfig == [isSet |-> FALSE, mappings |-> <<>>]
Config(mappings) == [isSet |-> TRUE, mappings |-> mappings]

\* no application id: activeApplicationId null
NoId == 0

\* useState({applications: [], activeApplicationId: null}), nothing stored
InitProvider ==
    /\ appState = [applications |-> <<>>, activeApplicationId |-> NoId]
    /\ appNext = appState
    /\ appStore = <<>>
    /\ appMounted = FALSE
    /\ appDeleted = {}
    /\ appNextId = 1

\* the components around the engine as they are constructed
\* no API configuration: APIService.config null, nothing stored
NoApiConfig == [name |-> 0, authType |-> "none", complete |-> FALSE]

\* the APIService singleton as constructed with nothing in localStorage
InitService ==
    /\ svcConfig = NoApiConfig
    /\ svcConfigStore = NoApiConfig
    /\ accessToken = 0
    /\ tokenExpiry = 0
    /\ history = <<>>
    /\ historyStore = <<>>
    /\ requestLog = <<>>
    /\ calls = <<>>
    /\ svcNow = 0

\* MappingPreview before its first render
InitPreview ==
    /\ sampleSourceData = Undef
    /\ sampleScimData = Undef
    /\ previewState = "none"

\* a row of the mapping table
Row(scimAttribute, sourceField, isRequired, transformation) ==
    [scimAttribute |-> scimAttribute, sourceField |-> sourceField,
     isRequired |-> isRequired, transformation |-> transformation]

\* useState([...]): the default mapping set; no transformation is ""
DefaultMappings ==
    <<Row("userName", "", TRUE, ""),
      Row("name.givenName", "", TRUE, ""),
      Row("name.familyName", "", TRUE, ""),
      Row("emails[0].value", "", TRUE, ""),
      Row("active", "", FALSE, "")>>

\* SchemaMapper as mounted, without initialMappings
InitMapper ==
    /\ mappingRows = DefaultMappings
    /\ nextMappings = DefaultMappings
    /\ fetching = {}
    /\ saving = {}
    /\ saved = {}
    /\ toasts = {}
    /\ edits = 0

\* useState(null), useState([]), useState(false); nothing stored
InitPage ==
    /\ indexState = [apiConfig |-> NoApiConfig, mappings |-> <<>>, isConfigured |-> FALSE]
    /\ indexNext = indexState
    /\ indexMounted = FALSE
    /\ scimStore = NoConfig

InitComponents == InitProvider /\ InitService /\ InitPreview /\ InitMapper /\ InitPage

\* the engine at rest: no config, no document, no call made
InitEngine ==
    /\ config = NoConfig
    /\ heap = <<>>
    /\ heap0 = <<>>
    /\ pre = <<>>
    /\ sourceData = Undef
    /\ scimDoc = Undef
    /\ stamps = <<0, 0>>
    /\ typeArg = <<>>
    /\ pathArg = <<>>
    /\ valueArg = Undef
    /\ result = Undef
    /\ outcome = "none"
    /\ callLog = <<>>
    /\ lastOp = "init"
    /\ clock = 0

\* useState('get'), useState(null) for testResults, rawData and error
InitTester ==
    /\ operation = "get"
    /\ testResults = Null
    /\ rawData = Null
    /\ error = Null

----------------------------------------------------------------------------
(* The transformation engine: a configured ScimUtils, one source record,   *)
(* a call of transformToScim and a call of transformFromScim on its result.*)

Init ==
    /\ config \in {Config(m) : m \in RuleSets}
    /\ \E d \in SourceDocuments : heap = d.h /\ sourceData = d.root
    /\ heap0 = heap
    /\ pre = heap
    /\ scimDoc = Undef
    /\ stamps = <<0, 0>>
    /\ typeArg = <<>>
    /\ pathArg = <<>>
    /\ valueArg = Undef
    /\ result = Undef
    /\ outcome = "none"
    /\ callLog = <<>>
    /\ lastOp = "init"
    /\ clock = 0
    /\ InitTester
    /\ InitComponents

TransformToScim ==
    /\ lastOp = "init"
    /\ \E resourceType \in ResourceTypes, d \in 0..(MaxClock - clock) :
         \E r \in {transformToScim(heap, config, sourceData, resourceType,
                                   clock, clock + d)} :
            /\ heap' = r.h
            /\ pre' = heap
            /\ typeArg' = resourceType
            /\ result' = r.v
            /\ scimDoc' = r.v
            /\ stamps' = <<clock, clock + d>>
            /\ outcome' = IF r.err THEN "threw" ELSE "returned"
            /\ callLog' = r.log
            /\ clock' = IF r.err THEN clock ELSE clock + d
    /\ lastOp' = "transformToScim"
    /\ UNCHANGED <<config, heap0, sourceData, pathArg, valueArg>>
    /\ UNCHANGED <<tester, components>>

TransformFromScim ==
    /\ lastOp = "transformToScim"
    /\ outcome = "returned"
    /\ \E r \in {transformFromScim(heap, config, scimDoc)} :
          /\ heap' = r.h
          /\ pre' = heap
          /\ result' = r.v
          /\ outcome' = IF r.err THEN "threw" ELSE "returned"
    /\ lastOp' = "transformFromScim"
    /\ UNCHANGED <<config, heap0, sourceData, scimDoc, stamps, typeArg, pathArg,
                   valueArg, callLog, clock>>
    /\ UNCHANGED <<tester, components>>

Next == TransformToScim \/ TransformFromScim

Spec == Init /\ [][Next]_vars

----------------------------------------------------------------------------
(* The path accessors on their own: getNestedValue on a document, and      *)
(* setNestedValue on a fresh empty object, for one path each.              *)

\* a path as the sequence of its segments: an object key or an array position
Name(cs) == [isIndex |-> FALSE, name |-> cs, index |-> 0]
Index(i) == [isIndex |-> TRUE, name |-> <<>>, index |-> i]

RECURSIVE PathString(_)
\* the path string of a segment sequence: a.b[2].c for a, b, 2, c
PathString(segs) ==
    IF Len(segs) = 0 THEN <<>>
    ELSE LET seg == segs[Len(segs)]
             front == PathString(SubSeq(segs, 1, Len(segs) - 1))
         IN IF seg.isIndex THEN front \o <<"[">> \o NumToString(seg.index) \o <<"]">>
            ELSE IF Len(segs) = 1 THEN seg.name
            ELSE front \o <<".">> \o seg.name

\* the array positions written in the generated paths
Indexes == (0..MaxIndex) \cup {BigIndex}

\* a, b, n, b.c, n.c, a.b.c
DottedSegs ==
    {<<Name(<<"a">>)>>, <<Name(<<"b">>)>>, <<Name(<<"n">>)>>, <<Name(<<"b">>), Name(<<"c">>)>>,
     <<Name(<<"n">>), Name(<<"c">>)>>, <<Name(<<"a">>), Name(<<"b">>), Name(<<"c">>)>>}
\* b[i].c: a name, an index, and a field
NameIndexFieldSegs == {<<Name(<<"b">>), Index(i), Name(<<"c">>)>> : i \in Indexes}
\* b[i]: a terminal index
NameIndexSegs == {<<Name(<<"b">>), Index(i)>> : i \in Indexes}
\* b.c[i], b.c[i].a: a dotted prefix before the first bracket
DottedPrefixSegs ==
    UNION {{<<Name(<<"b">>), Name(<<"c">>), Index(i)>>,
            <<Name(<<"b">>), Name(<<"c">>), Index(i), Name(<<"a">>)>>} : i \in 0..MaxIndex}
\* b[i].c[i].a, b[i][i]: a name between two indexes, two indexes in a row
TwoIndexSegs ==
    UNION {{<<Name(<<"b">>), Index(i), Name(<<"c">>), Index(i), Name(<<"a">>)>>,
            <<Name(<<"b">>), Index(i), Index(i)>>} : i \in 0..MaxIndex}
WellFormedSegs ==
    DottedSegs \cup NameIndexFieldSegs \cup NameIndexSegs \cup DottedPrefixSegs
      \cup TwoIndexSegs
WellFormedPaths == {PathString(segs) : segs \in WellFormedSegs}
\* the empty path, unbalanced brackets, empty segments, a non-numeric index
MalformedPaths ==
    {<<>>, <<"b", "[">>, <<"b", "[", "0">>, <<"b", "]">>, <<"b", ".", ".", "c">>, <<".">>, <<"b", ".">>, <<"[", "0", "]">>, <<"b", "[", "]", ".", "c">>, <<"b", "[", "c", "]">>, <<"b", "[", "0", "]", ".">>, <<"n", "[">>}
Paths == WellFormedPaths \cup MalformedPaths

\* [{c: "Y"}], the array of DocB, as a root
DocArray == [h |-> DocB.h, root |-> Ref(2)]
Scalar(v) == [h |-> <<>>, root |-> v]
PathDocuments ==
    {DocA, DocB, DocArray, Scalar(Str(<<"X">>)), Scalar(Num(0)), Scalar(Bool(TRUE)),
     Scalar(Null), Scalar(Undef)}

SetValues == {Str(<<"X">>), Str(<<>>), Num(0), Bool(FALSE), Null}

InitPath ==
    /\ config = NoConfig
    /\ \E d \in PathDocuments : heap = d.h /\ sourceData = d.root
    /\ heap0 = heap
    /\ pre = heap
    /\ scimDoc = Undef
    /\ stamps = <<0, 0>>
    /\ typeArg = <<>>
    /\ pathArg = <<>>
    /\ valueArg = Undef
    /\ result = Undef
    /\ outcome = "none"
    /\ callLog = <<>>
    /\ lastOp = "init"
    /\ clock = 0
    /\ InitTester
    /\ InitComponents

GetNestedValue ==
    /\ lastOp = "init"
    /\ \E path \in Paths :
         LET r == getNestedValue(heap, sourceData, path)
         IN /\ pathArg' = path
            /\ result' = r.v
            /\ outcome' = IF r.err THEN "threw" ELSE "returned"
    /\ pre' = heap
    /\ lastOp' = "getNestedValue"
    /\ UNCHANGED <<config, heap, heap0, sourceData, scimDoc, stamps, typeArg,
                   valueArg, callLog, clock>>
    /\ UNCHANGED <<tester, components>>

SetNestedValue ==
    /\ lastOp = "init"
    /\ \E path \in Paths, value \in SetValues :
         LET obj == Alloc(heap, ObjNode(EmptyProps))
             r == setNestedValue(obj.h, obj.v, path, value)
         IN /\ pathArg' = path
            /\ valueArg' = value
            /\ scimDoc' = obj.v
            /\ pre' = obj.h
            /\ heap' = r.h
            /\ outcome' = IF r.err THEN "threw" ELSE "returned"
    /\ result' = Undef
    /\ lastOp' = "setNestedValue"
    /\ UNCHANGED <<config, heap0, sourceData, stamps, typeArg, callLog, clock>>
    /\ UNCHANGED <<tester, components>>

NextPath == GetNestedValue \/ SetNestedValue

SpecPath == InitPath /\ [][NextPath]_vars

----------------------------------------------------------------------------
(* The SCIM envelope and the default rules: a user record, rules that      *)
(* carry expressions, rules that name the envelope keys, and a second call *)
(* after a call that was rejected for its resource type.                   *)

KFirstName == <<"f", "i", "r", "s", "t", "N", "a", "m", "e">>
KLastName == <<"l", "a", "s", "t", "N", "a", "m", "e">>
KDisplayName == <<"d", "i", "s", "p", "l", "a", "y", "N", "a", "m", "e">>
KActive == <<"a", "c", "t", "i", "v", "e">>
KName == <<"n", "a", "m", "e">>
John == <<"J", "o", "h", "n">>
Doe == <<"D", "o", "e">>

\* {firstName: "John", lastName: "Doe", active: 1}
DocUser ==
    [h |-> <<Obj(<<<<KFirstName, Str(John)>>, <<KLastName, Str(Doe)>>,
                   <<KActive, Num(1)>>>>)>>,
     root |-> Ref(1)]

\* the rule updateDefaultMappings adds for a record with firstName / lastName
DisplayNameRule == MappingItem(KDisplayName, KFirstName, DefaultDisplayName)

\* name.givenName
NameGivenName == KName \o <<".", "g", "i", "v", "e", "n", "N", "a", "m", "e">>

EnvelopeRules ==
    {DisplayNameRule,
     MappingItem(KDisplayName, KLastName, ""),
     \* expressions: on a present field, on an absent field, on no field
     MappingItem(KActive, KActive, "Boolean(value)"),
     MappingItem(KActive, KActive, "undefined"),
     MappingItem(KActive, KActive, ""),
     MappingItem(KActive, <<"m">>, "true"),
     MappingItem(KActive, <<>>, "true"),
     \* a path and a path below it
     MappingItem(KName, KFirstName, ""),
     MappingItem(NameGivenName, KFirstName, ""),
     MappingItem(NameGivenName, KLastName, ""),
     \* the envelope keys: schemas, schemas[0], meta, meta.created
     MappingItem(KSchemas, KFirstName, ""),
     MappingItem(KSchemas \o <<"[", "0", "]">>, KFirstName, ""),
     MappingItem(KMeta, KFirstName, ""),
     MappingItem(KMeta \o <<".">> \o KCreated, KFirstName, ""),
     \* no SCIM attribute chosen yet
     MappingItem(<<>>, KFirstName, "")}

EnvelopeRuleSets == UNION {[1..k -> EnvelopeRules] : k \in 0..MaxRules}

InitEnvelope ==
    /\ config \in {Config(m) : m \in EnvelopeRuleSets}
    /\ heap = DocUser.h
    /\ sourceData = DocUser.root
    /\ heap0 = heap
    /\ pre = heap
    /\ scimDoc = Undef
    /\ stamps = <<0, 0>>
    /\ typeArg = <<>>
    /\ pathArg = <<>>
    /\ valueArg = Undef
    /\ result = Undef
    /\ outcome = "none"
    /\ callLog = <<>>
    /\ lastOp = "init"
    /\ clock = 0
    /\ InitTester
    /\ InitComponents

\* a call of transformToScim after a call that threw for its resourceType
TransformToScimAgain ==
    /\ lastOp = "transformToScim"
    /\ outcome = "threw"
    /\ typeArg \notin {UserType, GroupType}
    /\ \E resourceType \in ResourceTypes, d \in 0..(MaxClock - clock) :
         \E r \in {transformToScim(heap, config, sourceData, resourceType,
                                   clock, clock + d)} :
            /\ heap' = r.h
            /\ pre' = heap
            /\ typeArg' = resourceType
            /\ result' = r.v
            /\ scimDoc' = r.v
            /\ stamps' = <<clock, clock + d>>
            /\ outcome' = IF r.err THEN "threw" ELSE "returned"
            /\ callLog' = r.log
            /\ clock' = IF r.err THEN clock ELSE clock + d
    /\ lastOp' = "transformToScimAgain"
    /\ UNCHANGED <<config, heap0, sourceData, pathArg, valueArg>>
    /\ UNCHANGED <<tester, components>>

NextEnvelope == TransformToScim \/ TransformToScimAgain \/ TransformFromScim

SpecEnvelope == InitEnvelope /\ [][NextEnvelope]_vars

----------------------------------------------------------------------------
(* Validation of a source record against the required rules. *)

\* {x: "X", e: "", z: 0, f: false, n: null, b: [{c: "Y"}]}
DocV ==
    [h |-> <<Obj(<<<<<<"x">>, Str(<<"X">>)>>, <<<<"e">>, Str(<<>>)>>, <<<<"z">>, Num(0)>>,
                   <<<<"f">>, Bool(FALSE)>>, <<<<"n">>, Null>>, <<<<"b">>, Ref(2)>>>>),
             ArrNode(<<Ref(3)>>),
             Obj(<<<<<<"c">>, Str(<<"Y">>)>>>>)>>,
     root |-> Ref(1)]

ValidatedDocuments == {DocV, Scalar(Null)}

\* x, e, z, f, n, the absent m, the empty field, b[0].c and the absent b[1].c
ValidatedFields ==
    {<<"x">>, <<"e">>, <<"z">>, <<"f">>, <<"n">>, <<"m">>, <<>>,
     <<"b", "[", "0", "]", ".", "c">>, <<"b", "[", "1", "]", ".", "c">>}

ValidatedRules ==
    {[MappingItem(<<"t">>, f, "") EXCEPT !.isRequired = q] :
        f \in ValidatedFields, q \in BOOLEAN}

ValidatedRuleSets == UNION {[1..k -> ValidatedRules] : k \in 0..MaxRules}

InitValidate ==
    /\ config \in {Config(m) : m \in ValidatedRuleSets} \cup {NoConfig}
    /\ \E d \in ValidatedDocuments : heap = d.h /\ sourceData = d.root
    /\ heap0 = heap
    /\ pre = heap
    /\ scimDoc = Undef
    /\ stamps = <<0, 0>>
    /\ typeArg = <<>>
    /\ pathArg = <<>>
    /\ valueArg = Undef
    /\ result = Undef
    /\ outcome = "none"
    /\ callLog = <<>>
    /\ lastOp = "init"
    /\ clock = 0
    /\ InitTester
    /\ InitComponents

ValidateSourceData ==
    /\ lastOp = "init"
    /\ \E r \in {validateSourceData(heap, config, sourceData)} :
          /\ heap' = r.h
          /\ result' = r.v
          /\ outcome' = IF r.err THEN "threw" ELSE "returned"
    /\ pre' = heap
    /\ lastOp' = "validateSourceData"
    /\ UNCHANGED <<config, heap0, sourceData, scimDoc, stamps, typeArg, pathArg,
                   valueArg, callLog, clock>>
    /\ UNCHANGED <<tester, components>>

NextValidate == ValidateSourceData

SpecValidate == InitValidate /\ [][NextValidate]_vars

----------------------------------------------------------------------------
(* Validation followed by the transform of the same record, under rules    *)
(* that are required or not and carry a transformation or not.             *)

RequiredRules ==
    {[MappingItem(a, f, e) EXCEPT !.isRequired = q] :
        a \in {KDisplayName, KName, NameGivenName},
        f \in {KFirstName, <<"m">>},
        e \in {"", "undefined", "null.x", "Boolean(value)"},
        q \in BOOLEAN}

RequiredRuleSets == UNION {[1..k -> RequiredRules] : k \in 0..MaxRules}

InitRequired ==
    /\ config \in {Config(m) : m \in RequiredRuleSets}
    /\ heap = DocUser.h
    /\ sourceData = DocUser.root
    /\ heap0 = heap
    /\ pre = heap
    /\ scimDoc = Undef
    /\ stamps = <<0, 0>>
    /\ typeArg = <<>>
    /\ pathArg = <<>>
    /\ valueArg = Undef
    /\ result = Undef
    /\ outcome = "none"
    /\ callLog = <<>>
    /\ lastOp = "init"
    /\ clock = 0
    /\ InitTester
    /\ InitComponents

\* transformToScim(sourceData, 'User') of the record that was validated
TransformValidated ==
    /\ lastOp = "validateSourceData"
    /\ outcome = "returned"
    /\ \E r \in {transformToScim(heap, config, sourceData, UserType, clock, clock)} :
          /\ heap' = r.h
          /\ result' = r.v
          /\ scimDoc' = r.v
          /\ outcome' = IF r.err THEN "threw" ELSE "returned"
          /\ callLog' = r.log
    /\ pre' = heap
    /\ typeArg' = UserType
    /\ stamps' = <<clock, clock>>
    /\ lastOp' = "transformToScim"
    /\ UNCHANGED <<config, heap0, sourceData, pathArg, valueArg, clock>>
    /\ UNCHANGED <<tester, components>>

NextRequired == ValidateSourceData \/ TransformValidated

SpecRequired == InitRequired /\ [][NextRequired]_vars

----------------------------------------------------------------------------
(* The endpoint tester: a configured ScimUtils, a response that the API    *)
(* returns, and one run of the test.                                       *)

\* most records in a response
MaxRecords == 2

\* {firstName: "John", lastName: "Doe"} and {lastName: "Roe"}
RecJohn == Obj(<<<<KFirstName, Str(John)>>, <<KLastName, Str(Doe)>>>>)
RecRoe == Obj(<<<<KLastName, Str(<<"R", "o", "e">>)>>>>)

\* an array of records
ResponseList(recs) ==
    [h |-> recs \o <<ArrNode([i \in 1..Len(recs) |-> Ref(i)])>>,
     root |-> Ref(Len(recs) + 1)]

\* {Resources: []}: a response that is a SCIM list already
ResponseWithResources ==
    [h |-> <<ArrNode(<<>>), Obj(<<<<KResources, Ref(1)>>>>)>>, root |-> Ref(2)]

Responses ==
    {ResponseList(recs) : recs \in UNION {[1..n -> {RecJohn, RecRoe}] : n \in 0..MaxRecords}}
      \cup {ResponseWithResources, [h |-> <<RecJohn>>, root |-> Ref(1)],
            Scalar(Str(<<"x">>)), Scalar(Null)}

\* displayName from firstName; name from firstName and name.givenName from
\* lastName, which throws for a record that has a firstName
ListRules ==
    {MappingItem(KDisplayName, KFirstName, ""),
     MappingItem(KName, KFirstName, ""),
     MappingItem(NameGivenName, KLastName, "")}

ListRuleSets == UNION {[1..k -> ListRules] : k \in 0..MaxRules}

Operations == {"get", "create"}

InitList ==
    /\ config \in {Config(m) : m \in ListRuleSets} \cup {NoConfig}
    /\ \E d \in Responses : heap = d.h /\ sourceData = d.root
    /\ heap0 = heap
    /\ pre = heap
    /\ scimDoc = Undef
    /\ stamps = <<0, 0>>
    /\ typeArg = <<>>
    /\ pathArg = <<>>
    /\ valueArg = Undef
    /\ result = Undef
    /\ outcome = "none"
    /\ callLog = <<>>
    /\ lastOp = "init"
    /\ clock = 0
    /\ operation \in Operations
    /\ testResults = Null
    /\ rawData = Null
    /\ error = Null
    /\ InitComponents

\* how many times the clock is read: twice for each call of transformToScim
Readings ==
    IF operation = "get" /\ IsArray(heap, sourceData)
    THEN 2 * Len(heap[sourceData.n].elems) ELSE 2

\* the clock readings of a run: from now on, never backwards
Ticks ==
    {f \in [1..Readings -> clock..MaxClock] :
        \A a, b \in 1..Readings : a <= b => f[a] <= f[b]}

\* one run of the test; sourceData is what the API returns
HandleRunTest ==
    /\ lastOp = "init"
    /\ \E fetchFails \in BOOLEAN, ticks \in Ticks :
         \E r \in {handleRunTest(heap, config, operation, sourceData, fetchFails, ticks)} :
            /\ heap' = r.h
            /\ testResults' = r.testResults
            /\ rawData' = r.rawData
            /\ error' = r.error
            /\ stamps' = ticks
            /\ clock' = IF Readings = 0 THEN clock ELSE ticks[Readings]
    /\ pre' = heap
    /\ lastOp' = "handleRunTest"
    /\ UNCHANGED <<config, heap0, sourceData, scimDoc, typeArg, pathArg, valueArg,
                   result, outcome, callLog, operation>>
    /\ UNCHANGED components

NextList == HandleRunTest

SpecList == InitList /\ [][NextList]_vars

----------------------------------------------------------------------------
(* ApplicationProvider (src/unnamed/part_000) and the application store    *)
(* (src/src/models/ApplicationConfig.ts).  A callback reads the state of   *)
(* the render it was created in; setState queues an updater, and the       *)
(* updaters run in order before the next render.                           *)

\* most applications ever created
MaxApps == 2

AppIds == 1..MaxApps

\* an application: its id, and whether updateApplication has touched it
Application(id) == [id |-> id, updated |-> FALSE]

\* the ids of a list of applications
IdsOf(applications) == {applications[i].id : i \in 1..Len(applications)}

\* applications.filter(app => app.id !== id)
RECURSIVE FilterOut(_, _)
FilterOut(applications, id) ==
    IF Len(applications) = 0 THEN <<>>
    ELSE IF Head(applications).id = id THEN FilterOut(Tail(applications), id)
    ELSE <<Head(applications)>> \o FilterOut(Tail(applications), id)

\* the updater of addApplication
Added(prev, id) ==
    [applications |-> Append(prev.applications, Application(id)),
     activeApplicationId |-> id]

\* the updater of updateApplication
Updated(prev, id) ==
    [prev EXCEPT !.applications =
        [i \in 1..Len(prev.applications) |->
            IF prev.applications[i].id = id
            THEN [prev.applications[i] EXCEPT !.updated = TRUE]
            ELSE prev.applications[i]]]

\* the active id after a deletion, among the applications left
ActiveAfterDelete(prev, id, updatedApps) ==
    IF prev.activeApplicationId = id
    THEN IF Len(updatedApps) > 0 THEN updatedApps[1].id ELSE NoId
    ELSE prev.activeApplicationId

\* the updater of deleteApplication
Deleted(prev, id) ==
    [applications |-> FilterOut(prev.applications, id),
     activeApplicationId |->
        ActiveAfterDelete(prev, id, FilterOut(prev.applications, id))]

\* loadApplications(): the stored list, [] when nothing is stored
loadApplications == appStore

\* the mount of a provider: useState, then the load effect; the save effect
\* of the first render sees no applications and saves nothing
MountProvider ==
    /\ ~appMounted
    /\ appState' = [applications |-> <<>>, activeApplicationId |-> NoId]
    /\ appNext' = IF Len(loadApplications) > 0
                  THEN [applications |-> loadApplications,
                        activeApplicationId |-> loadApplications[1].id]
                  ELSE [applications |-> <<>>, activeApplicationId |-> NoId]
    /\ appMounted' = TRUE
    /\ UNCHANGED <<appStore, appDeleted, appNextId>>
    /\ UNCHANGED <<engine, tester, service, preview, mapper, page>>

\* the provider goes away once its updates are rendered; the store stays
UnmountProvider ==
    /\ appMounted
    /\ appNext = appState
    /\ appMounted' = FALSE
    /\ UNCHANGED <<appState, appNext, appStore, appDeleted, appNextId>>
    /\ UNCHANGED <<engine, tester, service, preview, mapper, page>>

AddApplication ==
    /\ appMounted
    /\ appNextId <= MaxApps
    /\ appNext' = Added(appNext, appNextId)
    /\ appNextId' = appNextId + 1
    /\ UNCHANGED <<appState, appStore, appMounted, appDeleted>>
    /\ UNCHANGED <<engine, tester, service, preview, mapper, page>>

UpdateApplication ==
    /\ appMounted
    /\ \E id \in AppIds : appNext' = Updated(appNext, id)
    /\ UNCHANGED <<appState, appStore, appMounted, appDeleted, appNextId>>
    /\ UNCHANGED <<engine, tester, service, preview, mapper, page>>

\* the id is one that generateUniqueId has handed out
DeleteApplication ==
    /\ appMounted
    /\ \E id \in 1..(appNextId - 1) :
          /\ appNext' = Deleted(appNext, id)
          /\ appDeleted' = appDeleted \cup {id}
    /\ UNCHANGED <<appState, appStore, appMounted, appNextId>>
    /\ UNCHANGED <<engine, tester, service, preview, mapper, page>>

\* the existence check reads the state of the last render
SetActiveApplication ==
    /\ appMounted
    /\ \E id \in AppIds \cup {NoId} :
          IF id # NoId /\ id \notin IdsOf(appState.applications)
          THEN appNext' = appNext
          ELSE appNext' = [appNext EXCEPT !.activeApplicationId = id]
    /\ UNCHANGED <<appState, appStore, appMounted, appDeleted, appNextId>>
    /\ UNCHANGED <<engine, tester, service, preview, mapper, page>>

\* the next render, and the save effect when state.applications has changed:
\* if (state.applications.length > 0) saveApplications(state.applications)
RenderProvider ==
    /\ appMounted
    /\ appNext # appState
    /\ appState' = appNext
    /\ appStore' = IF /\ appNext.applications # appState.applications
                      /\ Len(appNext.applications) > 0
                   THEN appNext.applications
                   ELSE appStore
    /\ UNCHANGED <<appNext, appMounted, appDeleted, appNextId>>
    /\ UNCHANGED <<engine, tester, service, preview, mapper, page>>

InitApps == InitEngine /\ InitTester /\ InitComponents

NextApps ==
    \/ MountProvider \/ UnmountProvider \/ AddApplication \/ UpdateApplication
    \/ DeleteApplication \/ SetActiveApplication \/ RenderProvider

SpecApps == InitApps /\ [][NextApps]_vars

(***************************************************************************)
(* MappingPreview (src/unnamed/part_006): the sample source record made up *)
(* from the rules' source fields, and the SCIM document generateScimData   *)
(* builds from it with its own path handling.                              *)
(***************************************************************************)

\* `Sample ${name}`
Sample(name) == Str(<<"S", "a", "m", "p", "l", "e", " ">> \o name)

\* the switch over the simple source fields
SampleValue(field) ==
    CASE field = <<"u", "s", "e", "r", "_", "n", "a", "m", "e">> -> Str(<<"j", "o", "h", "n", "d", "o", "e">>)
      [] field = <<"f", "i", "r", "s", "t", "_", "n", "a", "m", "e">> -> Str(<<"J", "o", "h", "n">>)
      [] field = <<"l", "a", "s", "t", "_", "n", "a", "m", "e">> -> Str(<<"D", "o", "e">>)
      [] field = <<"e", "m", "a", "i", "l">> ->
             Str(<<"j", "o", "h", "n", ".", "d", "o", "e", "@", "e", "x", "a", "m", "p", "l", "e", ".", "c", "o", "m">>)
      [] field = <<"i", "s", "_", "a", "c", "t", "i", "v", "e">> -> Bool(TRUE)
      [] field = <<"p", "h", "o", "n", "e">> -> Str(<<"+", "1", " ", "5", "5", "5", "-", "1", "2", "3", "-", "4", "5", "6", "7">>)
      [] field = <<"u", "s", "e", "r", "_", "i", "d">> -> Str(<<"1", "2", "3", "4", "5">>)
      [] field = <<"p", "r", "o", "f", "i", "l", "e", "_", "u", "r", "l">> ->
             Str(<<"h", "t", "t", "p", "s", ":", "/", "/", "e", "x", "a", "m", "p", "l", "e", ".", "c", "o", "m", "/", "p", "r", "o", "f", "i", "l", "e", "s", "/", "j", "o", "h", "n", "d", "o", "e">>)
      [] OTHER -> Sample(field)

RECURSIVE SampleWalk(_, _, _, _)
\* the loop over parts[0 .. length - 2], then current[last] = `Sample ${last}`
SampleWalk(h, current, parts, i) ==
    IF i = Len(parts) THEN SetProp(h, current, parts[i], Sample(parts[i]))
    ELSE \* EnsureChild: if (!current[parts[i]]) current[parts[i]] = {}
         IF EnsureChild(h, current, parts[i], ObjNode(EmptyProps)).err THEN ThrowH(h)
         ELSE SampleWalk(EnsureChild(h, current, parts[i], ObjNode(EmptyProps)).h,
                         EnsureChild(h, current, parts[i], ObjNode(EmptyProps)).v,
                         parts, i + 1)

\* the body of the forEach callback of generateSampleSourceData
SampleField(h, data, mapping) ==
    IF Len(mapping.sourceField) = 0 THEN Heap(h)
    ELSE IF ~Includes(mapping.sourceField, ".")
         THEN SetProp(h, data, mapping.sourceField, SampleValue(mapping.sourceField))
         ELSE SampleWalk(h, data, Split(mapping.sourceField, "."), 1)

RECURSIVE SampleFields(_, _, _, _)
SampleFields(h, data, mappings, i) ==
    IF i > Len(mappings) THEN Heap(h)
    ELSE IF SampleField(h, data, mappings[i]).err THEN ThrowH(h)
         ELSE SampleFields(SampleField(h, data, mappings[i]).h, data, mappings, i + 1)

\* generateSampleSourceData(): [err, h, v], v the record
generateSampleSourceData(h, mappings) ==
    [err |-> SampleFields(Alloc(h, ObjNode(EmptyProps)).h, Ref(Len(h) + 1), mappings, 1).err,
     h |-> SampleFields(Alloc(h, ObjNode(EmptyProps)).h, Ref(Len(h) + 1), mappings, 1).h,
     v |-> Ref(Len(h) + 1)]

\* the transformation of the preview: applied whatever the value is; when it
\* throws, transformedValue keeps the value
PreviewValue(mapping, value) ==
    IF mapping.transformation # "" /\ ~EvalTransformation(mapping.transformation, value).err
    THEN EvalTransformation(mapping.transformation, value).v
    ELSE value

\* scimAttribute.split('[')[0]
MainPart(attr) == Split(attr, "[")[1]

\* parseInt(scimAttribute.split('[')[1].split(']')[0]), for a decimal index
ArrayIndex(attr) == ParseInt(Split(Split(attr, "[")[2], "]")[1])

\* scimAttribute.split(']')[1].substring(1)
RemainingPath(attr) ==
    IF Len(Split(attr, "]")[2]) <= 1 THEN <<>>
    ELSE SubSeq(Split(attr, "]")[2], 2, Len(Split(attr, "]")[2]))

\* if (!scimData[mainPart]) { scimData[mainPart] = [] }
MainArray(h, scimData, main) ==
    IF Truthy(GetProp(h, scimData, main).v) THEN h
    ELSE SetProp(Alloc(h, ArrNode(<<>>)).h, scimData, main, Ref(Len(h) + 1)).h

RECURSIVE PushObjects(_, _, _)
\* while (arr.length <= arrayIndex) { arr.push({}) }, arr an array or not: the heap
PushObjects(h, arr, index) ==
    IF ~(IsRef(arr) /\ h[arr.n].kind = "array") THEN h
    ELSE IF Len(h[arr.n].elems) > index THEN h
    ELSE PushObjects([Alloc(h, ObjNode(EmptyProps)).h EXCEPT
                         ![arr.n].elems = Append(@, Ref(Len(h) + 1))],
                     arr, index)

\* scimData[mainPart][arrayIndex][remainingPath] = v, or without remainingPath
SetElement(h, arr, index, remaining, v) ==
    IF remaining # <<>>
    THEN IF GetProp(h, arr, NumToString(index)).err THEN ThrowH(h)
         ELSE SetProp(h, GetProp(h, arr, NumToString(index)).v, remaining, v)
    ELSE SetProp(h, arr, NumToString(index), v)

\* the branch for a path with '[' and no '.'
SetBracketed(h, scimData, attr, v) ==
    SetElement(PushObjects(MainArray(h, scimData, MainPart(attr)),
                           GetProp(MainArray(h, scimData, MainPart(attr)),
                                   scimData, MainPart(attr)).v,
                           ArrayIndex(attr)),
               GetProp(MainArray(h, scimData, MainPart(attr)), scimData, MainPart(attr)).v,
               ArrayIndex(attr), RemainingPath(attr), v)

RECURSIVE SetDotted(_, _, _, _, _)
\* the branch for a path with '.': objects along parts, then the assignment
SetDotted(h, current, parts, i, v) ==
    IF i = Len(parts) THEN SetProp(h, current, parts[i], v)
    ELSE IF EnsureChild(h, current, parts[i], ObjNode(EmptyProps)).err THEN ThrowH(h)
         ELSE SetDotted(EnsureChild(h, current, parts[i], ObjNode(EmptyProps)).h,
                        EnsureChild(h, current, parts[i], ObjNode(EmptyProps)).v,
                        parts, i + 1, v)

\* "Set the value in the SCIM data structure"
PreviewWrite(h, scimData, attr, v) ==
    IF Includes(attr, ".") THEN SetDotted(h, scimData, Split(attr, "."), 1, v)
    ELSE IF Includes(attr, "[") THEN SetBracketed(h, scimData, attr, v)
    ELSE SetProp(h, scimData, attr, v)

\* the body of the forEach callback of generateScimData
PreviewMapping(h, scimData, source, mapping) ==
    IF Len(mapping.sourceField) = 0 THEN Heap(h)
    ELSE PreviewWrite(h, scimData, mapping.scimAttribute,
                      PreviewValue(mapping, GetProp(h, source, mapping.sourceField).v))

RECURSIVE PreviewMappings(_, _, _, _, _)
PreviewMappings(h, scimData, source, mappings, i) ==
    IF i > Len(mappings) THEN Heap(h)
    ELSE IF PreviewMapping(h, scimData, source, mappings[i]).err THEN ThrowH(h)
         ELSE PreviewMappings(PreviewMapping(h, scimData, source, mappings[i]).h,
                              scimData, source, mappings, i + 1)

KLocation == <<"l", "o", "c", "a", "t", "i", "o", "n">>

\* "https://example.com/scim/v2/Users/12345"
ExampleLocation ==
    <<"h", "t", "t", "p", "s", ":", "/", "/", "e", "x", "a", "m", "p", "l",
      "e", ".", "c", "o", "m", "/", "s", "c", "i", "m", "/", "v", "2", "/",
      "U", "s", "e", "r", "s", "/", "1", "2", "3", "4", "5">>

\* scimData.meta = {resourceType: "User", created, lastModified, location}
PreviewMeta(h, scimData, t) ==
    SetProp(Alloc(h, ObjNode(WithProp(WithProp(WithProp(WithProp(EmptyProps,
                        KResourceType, Str(UserType)),
                        KCreated, Str(<<"T", NumToString(t)[1]>>)),
                        KLastModified, Str(<<"T", NumToString(t)[1]>>)),
                        KLocation, Str(ExampleLocation)))).h,
            scimData, KMeta, Ref(Len(h) + 1)).h

\* const scimData = {schemas: [User schema]}: the array, then the object
PreviewScimData(h) ==
    h \o <<ArrNode(<<Str(UserSchema)>>),
           ObjNode(WithProp(EmptyProps, KSchemas, Ref(Len(h) + 1)))>>

\* the mappings applied to the fresh scimData at Len(h) + 2, then the meta
Generated(h, source, mappings, t) ==
    IF PreviewMappings(PreviewScimData(h), Ref(Len(h) + 2), source, mappings, 1).err
    THEN [err |-> TRUE, h |-> h, v |-> Undef]
    ELSE [err |-> FALSE,
          h |-> PreviewMeta(PreviewMappings(PreviewScimData(h), Ref(Len(h) + 2),
                                            source, mappings, 1).h,
                            Ref(Len(h) + 2), t),
          v |-> Ref(Len(h) + 2)]

\* generateScimData(): [err, h, v], on a sample record of its own
generateScimData(h, mappings, t) ==
    IF generateSampleSourceData(h, mappings).err
    THEN [err |-> TRUE, h |-> h, v |-> Undef]
    ELSE Generated(generateSampleSourceData(h, mappings).h,
                   generateSampleSourceData(h, mappings).v, mappings, t)

\* rules of the preview: plain, dotted and bracketed targets; the fields of the
\* switch, another simple field, a nested field, no field
PreviewTargets ==
    {<<"u", "s", "e", "r", "N", "a", "m", "e">>, NameGivenName,
     <<"e", "m", "a", "i", "l", "s", "[", "0", "]", ".", "v", "a", "l", "u", "e">>,
     <<"e", "m", "a", "i", "l", "s", "[", "0", "]">>}

PreviewFields ==
    {<<"e", "m", "a", "i", "l">>, <<"i", "s", "_", "a", "c", "t", "i", "v", "e">>,
     <<"x">>, <<"a", ".", "b">>, <<>>}

PreviewRules ==
    {MappingItem(a, f, e) : a \in PreviewTargets, f \in PreviewFields,
                            e \in {"", "Boolean(value)"}}

PreviewRuleSets == UNION {[1..k -> PreviewRules] : k \in 0..MaxRules}

\* Index with a mapping set saved: scimUtils and MappingPreview hold the same rules
InitPreviewed ==
    /\ config \in {Config(m) : m \in PreviewRuleSets}
    /\ heap = <<>>
    /\ sourceData = Undef
    /\ heap0 = heap
    /\ pre = heap
    /\ scimDoc = Undef
    /\ stamps = <<0, 0>>
    /\ typeArg = <<>>
    /\ pathArg = <<>>
    /\ valueArg = Undef
    /\ result = Undef
    /\ outcome = "none"
    /\ callLog = <<>>
    /\ lastOp = "init"
    /\ clock = 0
    /\ InitTester
    /\ InitProvider /\ InitService /\ InitPreview /\ InitMapper /\ InitPage

\* a render of MappingPreview: sampleSourceData, then sampleScimData
RenderPreview ==
    /\ previewState = "none"
    /\ \E s \in {generateSampleSourceData(heap, config.mappings)} :
        IF s.err
        THEN /\ previewState' = "threw"
             /\ UNCHANGED <<heap, sampleSourceData, sampleScimData>>
        ELSE \E g \in {generateScimData(s.h, config.mappings, clock)} :
               IF g.err
               THEN /\ previewState' = "threw"
                    /\ UNCHANGED <<heap, sampleSourceData, sampleScimData>>
               ELSE /\ previewState' = "rendered"
                    /\ heap' = g.h
                    /\ sampleSourceData' = s.v
                    /\ sampleScimData' = g.v
    /\ UNCHANGED <<config, heap0, pre, sourceData, scimDoc, stamps, typeArg, pathArg,
                   valueArg, result, outcome, callLog, lastOp, clock>>
    /\ UNCHANGED <<tester, provider, service, mapper, page>>

\* scimUtils.transformToScim(sampleSourceData, 'User')
TransformSample ==
    /\ previewState = "rendered"
    /\ lastOp = "init"
    /\ \E r \in {transformToScim(heap, config, sampleSourceData, UserType, clock, clock)} :
          /\ heap' = r.h
          /\ result' = r.v
          /\ scimDoc' = r.v
          /\ outcome' = IF r.err THEN "threw" ELSE "returned"
          /\ callLog' = r.log
    /\ pre' = heap
    /\ sourceData' = sampleSourceData
    /\ typeArg' = UserType
    /\ stamps' = <<clock, clock>>
    /\ lastOp' = "transformToScim"
    /\ UNCHANGED <<config, heap0, pathArg, valueArg, clock>>
    /\ UNCHANGED <<tester, components>>

NextPreview == RenderPreview \/ TransformSample

SpecPreview == InitPreviewed /\ [][NextPreview]_vars

(***************************************************************************)
(* SchemaMapper (src/src/components/SchemaMapper.tsx): the mapping table.  *)
(* A handler reads the mappings of the render it was created in and calls  *)
(* setMappings with a new list; the last call before the next render wins. *)
(* updateDefaultMappings runs when a field fetch completes, on the         *)
(* mappings of the render in which the fetch was started.                  *)
(***************************************************************************)

\* the editor operations in one run
MaxEdits == 2

\* const scimAttributes
scimAttributes ==
    <<[id |-> "userName", required |-> TRUE],
      [id |-> "name.givenName", required |-> TRUE],
      [id |-> "name.familyName", required |-> TRUE],
      [id |-> "displayName", required |-> FALSE],
      [id |-> "emails[0].value", required |-> TRUE],
      [id |-> "active", required |-> FALSE],
      [id |-> "externalId", required |-> FALSE],
      [id |-> "phoneNumbers[0].value", required |-> FALSE]>>

\* rows.some(m => m.scimAttribute === id)
Mapped(rows, id) == \E i \in 1..Len(rows) : rows[i].scimAttribute = id

\* rows.findIndex(m => m.scimAttribute === id), from 1; 0 for -1
FindIndex(rows, id) ==
    IF Mapped(rows, id)
    THEN CHOOSE i \in 1..Len(rows) :
            rows[i].scimAttribute = id /\ \A j \in 1..(i - 1) : rows[j].scimAttribute # id
    ELSE 0

\* index = findIndex(id); if (index >= 0) newMappings[index].sourceField = field
WithSource(rows, id, field) ==
    IF FindIndex(rows, id) = 0 THEN rows
    ELSE [rows EXCEPT ![FindIndex(rows, id)].sourceField = field]

\* the same with the transformation assigned as well
WithSourceAndTransformation(rows, id, field, transformation) ==
    IF FindIndex(rows, id) = 0 THEN rows
    ELSE [rows EXCEPT ![FindIndex(rows, id)].sourceField = field,
                      ![FindIndex(rows, id)].transformation = transformation]

\* a user record the API returns, by what updateDefaultMappings tests: name is
\* "absent", "string" or "object"; email is "undefined", "falsy" or "truthy"
UserResponse(username, firstName, lastName, name, firstname, lastname, email, active, phone, id) ==
    [username |-> username, firstName |-> firstName, lastName |-> lastName,
     name |-> name, firstname |-> firstname, lastname |-> lastname, email |-> email,
     active |-> active, phone |-> phone, id |-> id]

\* a DummyJSON user, a JSONPlaceholder user, a user with name: {firstname,
\* lastname}, a user with names and e-mail only, an empty record
UserResponses ==
    {UserResponse(TRUE, TRUE, TRUE, "absent", FALSE, FALSE, "truthy", FALSE, TRUE, TRUE),
     UserResponse(TRUE, FALSE, FALSE, "string", FALSE, FALSE, "truthy", FALSE, TRUE, TRUE),
     UserResponse(TRUE, FALSE, FALSE, "object", TRUE, TRUE, "undefined", TRUE, FALSE, TRUE),
     UserResponse(FALSE, TRUE, TRUE, "absent", FALSE, FALSE, "truthy", FALSE, FALSE, FALSE),
     UserResponse(FALSE, FALSE, FALSE, "absent", FALSE, FALSE, "falsy", FALSE, FALSE,
                  FALSE)}

\* "Username mapping"
DefaultUserName(rows, r) ==
    IF r.username THEN WithSource(rows, "userName", "username") ELSE rows

\* "Handle firstname/given name"
DefaultGivenName(rows, r) ==
    IF r.firstName THEN WithSource(rows, "name.givenName", "firstName")
    ELSE IF r.name = "string"
    THEN WithSourceAndTransformation(rows, "name.givenName", "name",
                                     "value.split(\" \")[0]")
    ELSE IF r.name = "object" /\ r.firstname
    THEN WithSource(rows, "name.givenName", "name.firstname")
    ELSE rows

\* "Handle lastname/family name"
DefaultFamilyName(rows, r) ==
    IF r.lastName THEN WithSource(rows, "name.familyName", "lastName")
    ELSE IF r.name = "string"
    THEN WithSourceAndTransformation(rows, "name.familyName", "name",
                                     "value.split(\" \").slice(1).join(\" \")")
    ELSE IF r.name = "object" /\ r.lastname
    THEN WithSource(rows, "name.familyName", "name.lastname")
    ELSE rows

\* "Handle email"
DefaultEmail(rows, r) ==
    IF r.email = "truthy" THEN WithSource(rows, "emails[0].value", "email")
    ELSE IF r.email = "undefined" /\ r.username
    THEN WithSourceAndTransformation(rows, "emails[0].value", "username",
                                     "value + \"@example.com\"")
    ELSE rows

\* "Handle active status"
DefaultActive(rows, r) ==
    IF r.active
    THEN WithSourceAndTransformation(rows, "active", "active", "Boolean(value)")
    ELSE WithSourceAndTransformation(rows, "active", "id", "true")

\* "Add phone number mapping if available"
DefaultPhone(rows, r) ==
    IF ~r.phone THEN rows
    ELSE IF FindIndex(rows, "phoneNumbers[0].value") = 0
    THEN Append(rows, Row("phoneNumbers[0].value", "phone", FALSE, ""))
    ELSE WithSource(rows, "phoneNumbers[0].value", "phone")

\* "Add external ID mapping if it exists"
DefaultExternalId(rows, r) ==
    IF ~r.id THEN rows
    ELSE IF FindIndex(rows, "externalId") = 0
    THEN Append(rows, Row("externalId", "id", FALSE, "String(value)"))
    ELSE WithSourceAndTransformation(rows, "externalId", "id", "String(value)")

\* "Add display name - handle different name formats"
DefaultDisplay(rows, r) ==
    IF FindIndex(rows, "displayName") = 0
    THEN IF r.firstName \/ r.lastName
         THEN Append(rows, Row("displayName", "firstName", FALSE,
                               "value + \" \" + (source.lastName || \"\")"))
         ELSE IF r.name = "string"
         THEN Append(rows, Row("displayName", "name", FALSE, ""))
         ELSE IF r.username
         THEN Append(rows, Row("displayName", "username", FALSE, ""))
         ELSE rows
    ELSE IF r.firstName \/ r.lastName
         THEN WithSourceAndTransformation(rows, "displayName", "firstName",
                                          "value + \" \" + (source.lastName || \"\")")
         ELSE IF r.name = "string"
         THEN WithSourceAndTransformation(rows, "displayName", "name", "")
         ELSE IF r.username
         THEN WithSourceAndTransformation(rows, "displayName", "username", "")
         ELSE rows

\* updateDefaultMappings(userResponse): the list handed to setMappings
updateDefaultMappings(rows, r) ==
    DefaultDisplay(
      DefaultExternalId(
        DefaultPhone(
          DefaultActive(
            DefaultEmail(
              DefaultFamilyName(
                DefaultGivenName(
                  DefaultUserName(rows, r), r), r), r), r), r), r), r)

\* scimAttributes.find(attr => !mappings.some(map => map.scimAttribute === attr.id)):
\* its index, 0 when every attribute is mapped
Unmapped(rows) ==
    IF \A a \in 1..Len(scimAttributes) : Mapped(rows, scimAttributes[a].id) THEN 0
    ELSE CHOOSE a \in 1..Len(scimAttributes) :
            /\ ~Mapped(rows, scimAttributes[a].id)
            /\ \A b \in 1..(a - 1) : Mapped(rows, scimAttributes[b].id)

\* handleAddMapping appending whatever attribute comes first in scimAttributes
handleAddMappingFirst(rows) ==
    Append(rows, Row(scimAttributes[1].id, "", scimAttributes[1].required, ""))

\* handleAddMapping: the list handed to setMappings
handleAddMapping(rows) ==
    Append(rows, Row(scimAttributes[Unmapped(rows)].id, "",
                     scimAttributes[Unmapped(rows)].required, ""))

\* newMappings.splice(index, 1)
handleRemoveMapping(rows, index) ==
    SubSeq(rows, 1, index - 1) \o SubSeq(rows, index + 1, Len(rows))

\* scimAttributes.find(attr => attr.id === value).required
RequiredOf(value) ==
    scimAttributes[CHOOSE a \in 1..Len(scimAttributes) : scimAttributes[a].id = value].required

\* updateMapping(index, 'scimAttribute', value), value one of scimAttributes
updateScimAttribute(rows, index, value) ==
    [rows EXCEPT ![index].scimAttribute = value, ![index].isRequired = RequiredOf(value)]

\* the options the attribute select of row index offers
Offered(rows, index) ==
    {scimAttributes[a].id : a \in {b \in 1..Len(scimAttributes) :
        \/ scimAttributes[b].id = rows[index].scimAttribute
        \/ ~Mapped(rows, scimAttributes[b].id)}}

\* mappings.some(mapping => mapping.isRequired && !mapping.sourceField)
requiredMissing(rows) ==
    \E i \in 1..Len(rows) : rows[i].isRequired /\ rows[i].sourceField = ""

\* the click on "Add Mapping"
HandleAddMapping ==
    /\ edits < MaxEdits
    /\ edits' = edits + 1
    /\ nextMappings' = IF Unmapped(mappingRows) # 0 THEN handleAddMapping(mappingRows)
                                                 ELSE nextMappings
    /\ UNCHANGED <<mappingRows, fetching, saving, saved, toasts>>
    /\ UNCHANGED <<engine, tester, provider, service, preview, page>>

\* the click on the remove button of a row, disabled on required rows
HandleRemoveMapping ==
    /\ edits < MaxEdits
    /\ edits' = edits + 1
    /\ \E index \in 1..Len(mappingRows) :
        /\ ~mappingRows[index].isRequired
        /\ nextMappings' = handleRemoveMapping(mappingRows, index)
    /\ UNCHANGED <<mappingRows, fetching, saving, saved, toasts>>
    /\ UNCHANGED <<engine, tester, provider, service, preview, page>>

\* a field from the source field select, a text typed as transformation
FieldOptions == {"email"}
Expressions == {"value"}

\* updateMapping(index, field, value) from the selects and the input of a row
UpdateMapping ==
    /\ edits < MaxEdits
    /\ edits' = edits + 1
    /\ \E index \in 1..Len(mappingRows) :
        \/ \E value \in Offered(mappingRows, index) :
              nextMappings' = updateScimAttribute(mappingRows, index, value)
        \/ \E value \in FieldOptions :
              nextMappings' = [mappingRows EXCEPT ![index].sourceField = value]
        \/ \E value \in Expressions :
              nextMappings' = [mappingRows EXCEPT ![index].transformation = value]
    /\ UNCHANGED <<mappingRows, fetching, saving, saved, toasts>>
    /\ UNCHANGED <<engine, tester, provider, service, preview, page>>

\* handleRefreshFields: the fetch starts, with the mappings of this render; the
\* button is disabled while isLoadingFields
HandleRefreshFields ==
    /\ edits < MaxEdits
    /\ fetching = {}
    /\ fetching' = {mappingRows}
    /\ UNCHANGED <<mappingRows, nextMappings, saving, saved, toasts, edits>>
    /\ UNCHANGED <<engine, tester, provider, service, preview, page>>

\* the fetch returns a user: updateDefaultMappings(response)
FieldsFetched ==
    /\ edits < MaxEdits
    /\ edits' = edits + 1
    /\ \E captured \in fetching, r \in UserResponses :
        /\ fetching' = fetching \ {captured}
        /\ nextMappings' = updateDefaultMappings(captured, r)
    /\ UNCHANGED <<mappingRows, saving, saved, toasts>>
    /\ UNCHANGED <<engine, tester, provider, service, preview, page>>

\* React renders SchemaMapper with the state last set
RenderMapper ==
    /\ nextMappings # mappingRows
    /\ mappingRows' = nextMappings
    /\ UNCHANGED <<nextMappings, fetching, saving, saved, toasts, edits>>
    /\ UNCHANGED <<engine, tester, provider, service, preview, page>>

\* handleSaveMapping: the toast, or the timer started; the button is disabled
\* while isLoading
HandleSaveMapping ==
    /\ saving = {}
    /\ IF requiredMissing(mappingRows)
       THEN /\ toasts' = toasts \cup {"Missing required mappings"}
            /\ UNCHANGED saving
       ELSE /\ saving' = saving \cup {mappingRows}
            /\ UNCHANGED toasts
    /\ UNCHANGED <<mappingRows, nextMappings, fetching, saved, edits>>
    /\ UNCHANGED <<engine, tester, provider, service, preview, page>>

\* the timer of handleSaveMapping fires: onMappingSave(mappings)
SaveTimeout ==
    /\ \E captured \in saving :
        /\ saving' = saving \ {captured}
        /\ saved' = {captured}
    /\ UNCHANGED <<mappingRows, nextMappings, fetching, toasts, edits>>
    /\ UNCHANGED <<engine, tester, provider, service, preview, page>>

InitEditor == InitEngine /\ InitTester /\ InitComponents

NextEditor ==
    \/ HandleAddMapping \/ HandleRemoveMapping \/ UpdateMapping
    \/ HandleRefreshFields \/ FieldsFetched \/ RenderMapper
    \/ HandleSaveMapping \/ SaveTimeout

SpecEditor == InitEditor /\ [][NextEditor]_vars

(***************************************************************************)
(* APIService (src/src/utils/apiService.ts 25-378): the configuration, the *)
(* OAuth token cache and the request history.  fetchData is asynchronous:  *)
(* a call is suspended while its token request and while its API request   *)
(* are in flight, and other calls and setConfig run in between.            *)
(***************************************************************************)

\* private maxHistoryItems = 50
maxHistoryItems == 50

\* tokenResponse.expires_in || 3600
DefaultExpiry == 3600

\* the fetchData calls made in one run
MaxCalls == 2

\* how far the wall clock advances
MaxTime == 1

\* APIConfig: name stands for baseUrl and credentials, complete says that the
\* credentials authType needs are filled in
ApiConfig(name, authType, complete) ==
    [name |-> name, authType |-> authType, complete |-> complete]

ApiConfigs == {ApiConfig(1, "oauth", TRUE), ApiConfig(2, "oauth", TRUE),
               ApiConfig(3, "apiKey", FALSE), ApiConfig(4, "none", TRUE)}

\* APIHistory: the call stands for method and endpoint
HistoryItem(call, timestamp, status, success) ==
    [call |-> call, timestamp |-> timestamp, status |-> status, success |-> success]

\* a stored history of n items, recorded before the page was loaded
StoredHistory(n) == [i \in 1..n |-> HistoryItem(0, 0, 200, TRUE)]

StoredLengths == {0, maxHistoryItems - 1}

\* the history, its stored copy and the items recorded
Recorder == [history |-> history, store |-> historyStore, log |-> requestLog]

\* history.slice(0, maxHistoryItems) when longer
Trim(items) ==
    IF Len(items) > maxHistoryItems THEN SubSeq(items, 1, maxHistoryItems) ELSE items

\* addHistoryItem without its saveHistory()
addHistoryItemUnsaved(s, item) ==
    [history |-> Trim(<<item>> \o s.history),
     store |-> s.store,
     log |-> <<item>> \o s.log]

\* addHistoryItem: unshift, trim, saveHistory
addHistoryItem(s, item) ==
    [history |-> Trim(<<item>> \o s.history),
     store |-> Trim(<<item>> \o s.history),
     log |-> <<item>> \o s.log]

\* a catch block that only rethrows
CaughtUnrecorded(s, item) == s

\* the catch block of fetchData: the failed request goes to the history
Caught(s, item) == addHistoryItem(s, item)

\* getOAuthToken up to its first await: the cached token, a throw, or a token
\* request with the credentials of cfg
getOAuthToken(cfg, token, expiry, t) ==
    IF token # 0 /\ expiry # 0 /\ expiry > t
    THEN [kind |-> "send", token |-> token, cached |-> TRUE]
    ELSE IF ~cfg.complete
         THEN [kind |-> "fail", token |-> 0, cached |-> FALSE]
         ELSE [kind |-> "await", token |-> 0, cached |-> FALSE]

\* getAuthHeaders up to its first await
getAuthHeaders(cfg, token, expiry, t) ==
    CASE cfg.authType = "apiKey" ->
             IF cfg.complete THEN [kind |-> "send", token |-> 0, cached |-> FALSE]
                             ELSE [kind |-> "fail", token |-> 0, cached |-> FALSE]
      [] cfg.authType = "oauth" -> getOAuthToken(cfg, token, expiry, t)
      [] OTHER -> [kind |-> "send", token |-> 0, cached |-> FALSE]

\* fetchData from buildUrl to its first await
Headers(cfg, token, expiry, t) ==
    IF cfg.authType # "none"
    THEN getAuthHeaders(cfg, token, expiry, t)
    ELSE [kind |-> "send", token |-> 0, cached |-> FALSE]

\* a fetchData call: under is the config it was made under, tokenFor the config
\* whose credentials its token request carries, items the success flags of the
\* history items it recorded, sent the API requests it put on the wire
Call(pc, under, tokenFor) ==
    [pc |-> pc, under |-> under, tokenFor |-> tokenFor, items |-> <<>>, sent |-> <<>>]

\* an API request: the config its url was built from, the token in its
\* Authorization header (0: none), and for a cached token its expiry and the time
Request(under, token, cached, expiry, at) ==
    [under |-> under, token |-> token, cached |-> cached, expiry |-> expiry, at |-> at]

\* fetch(url, ...) of the call
Sending(call, token, cached, expiry, at) ==
    [call EXCEPT !.pc = "request",
                 !.sent = Append(call.sent, Request(call.under, token, cached, expiry, at))]

\* the call ends: where, and with the items recorded between before and after
Ended(call, pc, before, after) ==
    [call EXCEPT !.pc = pc,
                 !.items = [i \in 1..(Len(after.log) - Len(before.log)) |->
                                after.log[Len(after.log) - Len(before.log) + 1 - i].success]]

Record(r) ==
    /\ history' = r.history
    /\ historyStore' = r.store
    /\ requestLog' = r.log

\* setConfig(config)
SetConfig ==
    /\ \E c \in ApiConfigs :
        /\ svcConfig' = c
        /\ svcConfigStore' = c
    /\ accessToken' = 0
    /\ tokenExpiry' = 0
    /\ UNCHANGED <<history, historyStore, requestLog, calls, svcNow>>
    /\ UNCHANGED <<engine, tester, provider, preview, mapper, page>>

\* getConfig(): the config, loaded from the store when none is set
getConfig(cfg, store) == IF cfg = NoApiConfig THEN store ELSE cfg

\* fetchData(endpoint, options) up to its first await
FetchData ==
    /\ Len(calls) < MaxCalls
    /\ IF svcConfig = NoApiConfig
       THEN /\ calls' = Append(calls, Call("threw", 0, 0))
            /\ UNCHANGED <<history, historyStore, requestLog>>
       ELSE \E r \in {Headers(svcConfig, accessToken, tokenExpiry, svcNow)} :
              CASE r.kind = "send" ->
                     /\ calls' = Append(calls, Sending(Call("start", svcConfig.name, 0),
                                                       r.token, r.cached,
                                                       IF r.cached THEN tokenExpiry ELSE 0,
                                                       IF r.cached THEN svcNow ELSE 0))
                     /\ UNCHANGED <<history, historyStore, requestLog>>
                [] r.kind = "await" ->
                     /\ calls' = Append(calls, Call("token", svcConfig.name, svcConfig.name))
                     /\ UNCHANGED <<history, historyStore, requestLog>>
                [] OTHER ->
                     \E after \in {Caught(Recorder,
                                          HistoryItem(Len(calls) + 1, svcNow, 0, FALSE))} :
                         /\ calls' = Append(calls, Ended(Call("threw", svcConfig.name, 0),
                                                         "threw", Recorder, after))
                         /\ Record(after)
    /\ UNCHANGED <<svcConfig, svcConfigStore, accessToken, tokenExpiry, svcNow>>
    /\ UNCHANGED <<engine, tester, provider, preview, mapper, page>>

\* the token endpoint answers a call suspended in getOAuthToken
TokenResponse ==
    /\ \E k \in 1..Len(calls), ok \in BOOLEAN, expires_in \in {0, 1} :
        /\ calls[k].pc = "token"
        /\ IF ok
           THEN /\ accessToken' = calls[k].tokenFor
                /\ tokenExpiry' = svcNow + (IF expires_in = 0 THEN DefaultExpiry
                                                               ELSE expires_in)
                /\ calls' = [calls EXCEPT ![k] = Sending(calls[k], calls[k].tokenFor,
                                                         FALSE, 0, 0)]
                /\ UNCHANGED <<history, historyStore, requestLog>>
           ELSE \E after \in {Caught(Recorder, HistoryItem(k, svcNow, 0, FALSE))} :
                /\ calls' = [calls EXCEPT ![k] = Ended(calls[k], "threw", Recorder, after)]
                /\ Record(after)
                /\ UNCHANGED <<accessToken, tokenExpiry>>
    /\ UNCHANGED <<svcConfig, svcConfigStore, svcNow>>
    /\ UNCHANGED <<engine, tester, provider, preview, mapper, page>>

\* what the API answers: 200 with a body, 500, no answer at all, 200 with a body
\* response.json() rejects
Answers == {"ok", "error", "failed", "unparsable"}

\* the rest of fetchData: the item recorded in the try block, or thrown to the
\* catch block
Answered(s, k, answer, t) ==
    CASE answer = "ok" -> addHistoryItem(s, HistoryItem(k, t, 200, TRUE))
      [] answer = "error" -> Caught(s, HistoryItem(k, t, 500, FALSE))
      [] answer = "failed" -> Caught(s, HistoryItem(k, t, 0, FALSE))
      [] OTHER -> Caught(s, HistoryItem(k, t, 200, FALSE))

\* the API answers a call suspended in fetch
Response ==
    /\ \E k \in 1..Len(calls), answer \in Answers :
        /\ calls[k].pc = "request"
        /\ \E after \in {Answered(Recorder, k, answer, svcNow)} :
            /\ calls' = [calls EXCEPT ![k] = Ended(calls[k],
                                                   IF answer = "ok" THEN "returned"
                                                                    ELSE "threw",
                                                   Recorder, after)]
            /\ Record(after)
    /\ UNCHANGED <<svcConfig, svcConfigStore, accessToken, tokenExpiry, svcNow>>
    /\ UNCHANGED <<engine, tester, provider, preview, mapper, page>>

\* clearHistory()
ClearHistory ==
    /\ history' = <<>>
    /\ historyStore' = <<>>
    /\ requestLog' = <<>>
    /\ UNCHANGED <<svcConfig, svcConfigStore, accessToken, tokenExpiry, calls, svcNow>>
    /\ UNCHANGED <<engine, tester, provider, preview, mapper, page>>

\* time passes
Tick ==
    /\ svcNow < MaxTime
    /\ svcNow' = svcNow + 1
    /\ UNCHANGED <<svcConfig, svcConfigStore, accessToken, tokenExpiry, history, historyStore,
                   requestLog, calls>>
    /\ UNCHANGED <<engine, tester, provider, preview, mapper, page>>

\* new APIService(): loadHistory reads what an earlier page load stored
InitApi ==
    /\ InitEngine /\ InitTester /\ InitProvider /\ InitPreview /\ InitMapper /\ InitPage
    /\ svcConfig = NoApiConfig
    /\ svcConfigStore = NoApiConfig
    /\ accessToken = 0
    /\ tokenExpiry = 0
    /\ \E n \in StoredLengths :
        /\ history = StoredHistory(n)
        /\ historyStore = StoredHistory(n)
        /\ requestLog = StoredHistory(n)
    /\ calls = <<>>
    /\ svcNow = 0

NextApi ==
    \/ SetConfig \/ FetchData \/ TokenResponse \/ Response
    \/ ClearHistory \/ Tick

SpecApi == InitApi /\ [][NextApi]_vars

(***************************************************************************)
(* Index (src/src/pages/Index.tsx): the page state, the apiService and     *)
(* scimUtils singletons it configures.  A handler reads apiConfig and      *)
(* mappings of the render it was created in.                               *)
(***************************************************************************)

\* the mapping sets SchemaMapper hands to onMappingSave
SavedMappings == {<<>>, <<MappingItem(KDisplayName, KFirstName, "")>>}

\* what localStorage holds when the page is loaded: nothing, or what setConfig
\* of an earlier visit stored
StoredScimConfigs == {NoConfig} \cup {Config(m) : m \in SavedMappings}
StoredApiConfigs == {NoApiConfig, ApiConfig(4, "none", TRUE)}

\* the load effect: setApiConfig, setMappings, setIsConfigured
Loaded(st, savedApiConfig, savedScimConfig) ==
    [apiConfig |-> IF savedApiConfig # NoApiConfig THEN savedApiConfig ELSE st.apiConfig,
     mappings |-> IF savedScimConfig.isSet THEN savedScimConfig.mappings ELSE st.mappings,
     isConfigured |-> savedApiConfig # NoApiConfig /\ savedScimConfig.isSet
                        /\ Len(savedScimConfig.mappings) > 0]

\* updateConfigStatus: setIsConfigured(!!(apiConfig && mappings.length > 0)), on
\* the apiConfig and mappings of the render st
updateConfigStatus(st, next) ==
    [next EXCEPT !.isConfigured = st.apiConfig # NoApiConfig /\ Len(st.mappings) > 0]

\* Index mounts: the load effect
MountIndex ==
    /\ ~indexMounted
    /\ indexMounted' = TRUE
    /\ svcConfig' = getConfig(svcConfig, svcConfigStore)
    /\ indexNext' = Loaded(indexState, getConfig(svcConfig, svcConfigStore), config)
    /\ UNCHANGED <<indexState, scimStore>>
    /\ UNCHANGED <<svcConfigStore, accessToken, tokenExpiry, history, historyStore,
                   requestLog, calls, svcNow>>
    /\ UNCHANGED <<engine, tester, provider, preview, mapper>>

\* handleApiConfigSave(config), of the page as rendered
HandleApiConfigSave ==
    /\ indexMounted
    /\ indexNext = indexState
    /\ \E c \in ApiConfigs :
        /\ indexNext' = updateConfigStatus(indexState, [indexNext EXCEPT !.apiConfig = c])
        /\ svcConfig' = c
        /\ svcConfigStore' = c
    /\ accessToken' = 0
    /\ tokenExpiry' = 0
    /\ UNCHANGED <<indexState, indexMounted, scimStore>>
    /\ UNCHANGED <<history, historyStore, requestLog, calls, svcNow>>
    /\ UNCHANGED <<engine, tester, provider, preview, mapper>>

\* handleMappingSave(newMappings), of the page as rendered
HandleMappingSave ==
    /\ indexMounted
    /\ indexNext = indexState
    /\ \E newMappings \in SavedMappings :
        /\ indexNext' = updateConfigStatus(indexState, [indexNext EXCEPT !.mappings = newMappings])
        /\ IF indexState.apiConfig # NoApiConfig
           THEN config' = Config(newMappings) /\ scimStore' = Config(newMappings)
           ELSE UNCHANGED <<config, scimStore>>
    /\ UNCHANGED <<indexState, indexMounted>>
    /\ UNCHANGED <<heap, heap0, pre, sourceData, scimDoc, stamps, typeArg, pathArg, valueArg,
                   result, outcome, callLog, lastOp, clock>>
    /\ UNCHANGED <<tester, provider, service, preview, mapper>>

\* React renders Index with the state last set
RenderIndex ==
    /\ indexNext # indexState
    /\ indexState' = indexNext
    /\ UNCHANGED <<indexNext, indexMounted, scimStore>>
    /\ UNCHANGED <<engine, tester, provider, service, preview, mapper>>

\* the page is loaded: the singletons are constructed, ScimUtils loads its config
InitIndex ==
    /\ InitTester /\ InitProvider /\ InitPreview /\ InitMapper
    /\ indexState = [apiConfig |-> NoApiConfig, mappings |-> <<>>, isConfigured |-> FALSE]
    /\ indexNext = indexState
    /\ indexMounted = FALSE
    /\ scimStore \in StoredScimConfigs
    /\ config = scimStore
    /\ heap = <<>>
    /\ heap0 = heap
    /\ pre = heap
    /\ sourceData = Undef
    /\ scimDoc = Undef
    /\ stamps = <<0, 0>>
    /\ typeArg = <<>>
    /\ pathArg = <<>>
    /\ valueArg = Undef
    /\ result = Undef
    /\ outcome = "none"
    /\ callLog = <<>>
    /\ lastOp = "init"
    /\ clock = 0
    /\ svcConfig = NoApiConfig
    /\ svcConfigStore \in StoredApiConfigs
    /\ accessToken = 0
    /\ tokenExpiry = 0
    /\ history = <<>>
    /\ historyStore = <<>>
    /\ requestLog = <<>>
    /\ calls = <<>>
    /\ svcNow = 0

NextIndex == MountIndex \/ HandleApiConfigSave \/ HandleMappingSave \/ RenderIndex

SpecIndex == InitIndex /\ [][NextIndex]_vars

----------------------------------------------------------------------------
(* Properties of the path accessors (checked under SpecPath). *)

EmptyObjectTree ==
    [t |-> "object", s |-> <<>>, n |-> 0, props |-> EmptyProps, elems |-> <<>>]

\* the paths of the four classes: plain dotted, name[i].field, a dotted
\* prefix before the first bracket, a name between two indexes
MixedPaths ==
    {PathString(segs) : segs \in DottedSegs \cup NameIndexFieldSegs}
      \cup {PathString(<<Name(<<"b">>), Name(<<"c">>), Index(i), Name(<<"a">>)>>) : i \in 0..MaxIndex}
      \cup {PathString(<<Name(<<"b">>), Index(i), Name(<<"c">>), Index(i), Name(<<"a">>)>>) :
              i \in 0..MaxIndex}

\* C6: after setNestedValue(obj, p, v) on an empty object, getNestedValue(obj, p)
\* returns v, for every plain dotted path, every name[i].field path, every path
\* with a dotted prefix before the first bracket and every path with a name
\* between two indexes.
C6_SetThenGet ==
    (lastOp = "setNestedValue" /\ pathArg \in MixedPaths) =>
        /\ outcome = "returned"
        /\ getNestedValue(heap, scimDoc, pathArg) = Val(valueArg)

\* C8: for every index i, setNestedValue({}, "b[i].c", v) leaves under b an array
\* of length exactly i + 1 whose slots 0..i-1 are empty objects and whose slot i
\* is {c: v}; setNestedValue({}, "b[i]", v) pads the same way and stores v at
\* slot i.
C8_ArrayMaterialization ==
    \A i \in Indexes :
        (/\ lastOp = "setNestedValue"
         /\ pathArg \in {PathString(<<Name(<<"b">>), Index(i)>>),
                         PathString(<<Name(<<"b">>), Index(i), Name(<<"c">>)>>)}) =>
            /\ outcome = "returned"
            /\ DOMAIN heap[scimDoc.n].props = {<<"b">>}
            /\ LET arr == heap[scimDoc.n].props[<<"b">>] IN
               /\ IsRef(arr)
               /\ heap[arr.n].kind = "array"
               /\ Len(heap[arr.n].elems) = i + 1
               /\ \A j \in 1..i :
                    Deep(heap, heap[arr.n].elems[j], MaxDepth) = EmptyObjectTree
               /\ IF pathArg = PathString(<<Name(<<"b">>), Index(i)>>)
                  THEN heap[arr.n].elems[i + 1] = valueArg
                  ELSE Deep(heap, heap[arr.n].elems[i + 1], MaxDepth) =
                         [EmptyObjectTree EXCEPT
                            !.props = WithProp(EmptyProps, <<"c">>,
                                               Leaf(valueArg.t, valueArg.s, valueArg.n))]

\* a padded array: b[MaxIndex].c was set, the slots before it were created
C8_Witness ==
    /\ lastOp = "setNestedValue"
    /\ outcome = "returned"
    /\ MaxIndex > 0
    /\ pathArg = PathString(<<Name(<<"b">>), Index(MaxIndex), Name(<<"c">>)>>)
    /\ Len(heap[heap[scimDoc.n].props[<<"b">>].n].elems) = MaxIndex + 1

RECURSIVE Resolve(_, _, _, _)
\* the value a segment sequence addresses, from segment k on: a name needs a
\* non-null object, an index needs an array longer than the index, and the
\* result is undefined as soon as one of them is not met
Resolve(h, node, segs, k) ==
    IF k > Len(segs) THEN node
    ELSE IF ~IsRef(node) THEN Undef
    ELSE IF segs[k].isIndex
    THEN IF h[node.n].kind = "array" /\ Len(h[node.n].elems) > segs[k].index
         THEN Resolve(h, h[node.n].elems[segs[k].index + 1], segs, k + 1)
         ELSE Undef
    ELSE IF segs[k].name \in DOMAIN h[node.n].props
         THEN Resolve(h, h[node.n].props[segs[k].name], segs, k + 1)
         ELSE Undef

\* C10: getNestedValue never throws and never modifies the heap, for every root
\* and every path, malformed ones included; for a well-formed path it returns
\* the value its segments address, which is undefined as soon as a name segment
\* meets a node that is not a non-null object or an index segment meets a node
\* that is not an array longer than the index.
C10_GetNeverThrows ==
    lastOp = "getNestedValue" =>
        /\ outcome = "returned"
        /\ heap = pre
        /\ \A segs \in WellFormedSegs :
             pathArg = PathString(segs) => result = Resolve(pre, sourceData, segs, 1)

\* a name segment met null: n.c read from {a: "X", b: {c: ["Y"]}, n: null}
C10_Witness ==
    /\ lastOp = "getNestedValue"
    /\ heap = DocA.h
    /\ sourceData = DocA.root
    /\ pathArg = <<"n", ".", "c">>
    /\ result = Undef

----------------------------------------------------------------------------
(* Properties of transformToScim and transformFromScim (checked under Spec). *)

Mappings == config.mappings
Called == lastOp = "transformToScim"
Returned == lastOp = "transformToScim" /\ outcome = "returned"

\* the value at the sourceField of rule i in the source record as it was
\* handed in
SourceValue(i) == getNestedValue(heap0, sourceData, Mappings[i].sourceField).v

\* rule i has an expression that throws or does not compile, and a defined
\* source value
Failing(i) ==
    /\ Len(Mappings[i].sourceField) > 0
    /\ Mappings[i].transformation # ""
    /\ SourceValue(i) # Undef
    /\ EvalTransformation(Mappings[i].transformation, SourceValue(i)).err

\* the rule list without the rules at the positions in skip
Without(skip) ==
    LET keep == {i \in 1..Len(Mappings) : i \notin skip}
        RECURSIVE Pick(_)
        Pick(k) == IF k > Len(Mappings) THEN <<>>
                   ELSE IF k \in keep THEN <<Mappings[k]>> \o Pick(k + 1)
                   ELSE Pick(k + 1)
    IN Pick(1)

\* the same call of transformToScim, on the same heap, with another rule list
Rerun(mappings) ==
    transformToScim(pre, Config(mappings), sourceData, typeArg, stamps[1], stamps[2])

\* C1: when a rule's transformation expression throws for a defined source
\* value, the rule's scimAttribute path is absent from the returned document.
C1_FailedRuleOmitted ==
    Returned =>
        \A i \in 1..Len(Mappings) :
            Failing(i) =>
                getNestedValue(heap, result, Mappings[i].scimAttribute).v = Undef

\* C2: a throwing transformation expression never aborts transformToScim, and
\* every other rule whose source value is defined leaves at its scimAttribute
\* what it leaves there when the failing rules are not in the rule set.
C2_FailureIsolated ==
    (Called /\ \E i \in 1..Len(Mappings) : Failing(i)) =>
        LET failing == {i \in 1..Len(Mappings) : Failing(i)}
            ref == Rerun(Without(failing))
        IN ~ref.err =>
             /\ outcome = "returned"
             /\ \A j \in (1..Len(Mappings)) \ failing :
                  (Len(Mappings[j].sourceField) > 0 /\ SourceValue(j) # Undef) =>
                      Deep(heap, getNestedValue(heap, result, Mappings[j].scimAttribute).v,
                           MaxDepth)
                        = Deep(ref.h, getNestedValue(ref.h, ref.v, Mappings[j].scimAttribute).v,
                               MaxDepth)

\* the document an operation was handed, and the one it returned
InputDoc == IF lastOp = "transformFromScim" THEN scimDoc ELSE sourceData

\* C3: transformToScim and transformFromScim leave their input document
\* unchanged and return a document that shares no node with it.
C3_NoAliasing ==
    (lastOp \in {"transformToScim", "transformFromScim"}) =>
        /\ \A a \in Reach(pre, {InputDoc}, {}) : heap[a] = pre[a]
        /\ outcome = "returned" =>
             Reach(heap, {result}, {}) \cap Reach(heap, {InputDoc}, {}) = {}

\* every rule has a source field and a SCIM attribute, and no transformation
Invertible ==
    \A i \in 1..Len(Mappings) :
        /\ Len(Mappings[i].sourceField) > 0
        /\ Len(Mappings[i].scimAttribute) > 0
        /\ Mappings[i].transformation = ""

\* C4: for a rule set without transformations and without empty fields,
\* transformFromScim(transformToScim(S)) holds at each rule's sourceField the
\* value S holds there.
C4_RoundTrip ==
    (lastOp = "transformFromScim" /\ outcome = "returned" /\ Invertible) =>
        \A i \in 1..Len(Mappings) :
            Deep(heap, getNestedValue(heap, result, Mappings[i].sourceField).v, MaxDepth)
              = Deep(heap0, SourceValue(i), MaxDepth)

\* C5 as stated: if a rule's source value is undefined, the value at the
\* rule's scimAttribute in the returned document is undefined.
C5_OmissionAsStated ==
    Returned =>
        \A i \in 1..Len(Mappings) :
            SourceValue(i) = Undef =>
                getNestedValue(heap, result, Mappings[i].scimAttribute).v = Undef

\* C5, amended: a rule that reads undefined from the source record writes
\* nothing: it does not call setNestedValue, and the call ends as it does
\* without the rule, with the same document and the same source record.
C5_UndefinedRuleIsNoOp ==
    Called =>
        \A i \in 1..Len(callLog) :
            callLog[i].raw = Undef =>
                /\ ~callLog[i].wrote
                /\ \E ref \in {Rerun(Without({i}))} :
                     /\ ref.err = (outcome = "threw")
                     /\ Deep(heap, result, MaxDepth) = Deep(ref.h, ref.v, MaxDepth)
                     /\ Deep(heap, sourceData, MaxDepth) = Deep(ref.h, sourceData, MaxDepth)

\* a rule that read undefined, and a value at its scimAttribute all the same:
\* another rule wrote at, below or beyond that path
C5_Witness ==
    /\ Returned
    /\ \E i \in 1..Len(Mappings) :
         /\ Len(Mappings[i].sourceField) > 0
         /\ callLog[i].raw = Undef
         /\ ~callLog[i].wrote
         /\ getNestedValue(heap, result, Mappings[i].scimAttribute).v # Undef

\* path q continues path p: q is p followed by a field (.x) or an index ([i])
Extends(q, p) ==
    /\ Len(q) > Len(p)
    /\ SubSeq(q, 1, Len(p)) = p
    /\ q[Len(p) + 1] \in {".", "["}

\* C7: when a rule has stored a scalar at a path and the last rule writes below
\* that path, transformToScim does not throw and the value of the last rule is
\* stored at its path: the scalar was replaced by a container.
C7_WrongKindReplaced ==
    Called =>
        \A i, j \in 1..Len(callLog) :
            (/\ i < j
             /\ j = Len(Mappings)
             /\ callLog[i].wrote
             /\ ~IsRef(callLog[i].value)
             /\ callLog[j].wrote
             /\ Extends(Mappings[j].scimAttribute, Mappings[i].scimAttribute)) =>
                /\ outcome = "returned"
                /\ getNestedValue(heap, result, Mappings[j].scimAttribute).v
                     = callLog[j].value

\* C9: getNestedValue returns null for a key that stores null and undefined for
\* a key that is absent; a rule without transformation that reads null from the
\* source record calls setNestedValue with null, one that reads undefined does
\* not call it; and with that rule alone the document holds null, respectively
\* nothing, at the rule's scimAttribute.
C9_NullVersusMissing ==
    /\ \A a \in 1..Len(heap), k \in {<<"a">>, <<"b">>, <<"c">>, <<"n">>, <<"t">>} :
         heap[a].kind = "object" =>
            getNestedValue(heap, Ref(a), k) =
               Val(IF k \in DOMAIN heap[a].props THEN heap[a].props[k] ELSE Undef)
    /\ Called =>
         \A i \in 1..Len(callLog) :
            (Len(Mappings[i].sourceField) > 0 /\ Mappings[i].transformation = "") =>
                /\ callLog[i].raw = Null =>
                     /\ callLog[i].wrote
                     /\ callLog[i].value = Null
                     /\ (Returned /\ Len(Mappings) = 1) =>
                          getNestedValue(heap, result, Mappings[i].scimAttribute).v = Null
                /\ callLog[i].raw = Undef =>
                     /\ ~callLog[i].wrote
                     /\ (Returned /\ Len(Mappings) = 1) =>
                          getNestedValue(heap, result, Mappings[i].scimAttribute).v = Undef

\* both cases in one call: a rule that wrote null and a rule that wrote nothing
C9_Witness ==
    /\ Returned
    /\ \E i, j \in 1..Len(Mappings) :
         /\ Mappings[i].transformation = "" /\ Mappings[j].transformation = ""
         /\ Len(Mappings[j].sourceField) > 0
         /\ callLog[i].raw = Null /\ callLog[i].wrote /\ callLog[i].value = Null
         /\ getNestedValue(heap, result, Mappings[i].scimAttribute).v = Null
         /\ callLog[j].raw = Undef /\ ~callLog[j].wrote

----------------------------------------------------------------------------
(* Properties of validateSourceData (checked under SpecValidate). *)

\* the positions of the required rules whose source value is undefined, null
\* or the empty string
MissingRules ==
    {i \in 1..Len(Mappings) :
        /\ Mappings[i].isRequired
        /\ getNestedValue(heap0, sourceData, Mappings[i].sourceField).v
              \in {Undef, Null, Str(<<>>)}}

\* the k-th of them in rule order
MissingRule(k) ==
    CHOOSE i \in MissingRules : Cardinality({j \in MissingRules : j <= i}) = k

\* the missing list of the report that validateSourceData returned
Reported == heap[heap[result.n].props[KMissing].n].elems

\* C11: validateSourceData reports the sourceField of every required rule whose
\* source value is undefined, null or the empty string, one entry per rule in
\* rule order, and of no other rule; valid is true exactly when the list is
\* empty.
C11_ValidateReport ==
    (lastOp = "validateSourceData" /\ config.isSet) =>
        /\ outcome = "returned"
        /\ Len(Reported) = Cardinality(MissingRules)
        /\ \A k \in 1..Len(Reported) :
              Reported[k] = Str(Mappings[MissingRule(k)].sourceField)
        /\ heap[result.n].props[KValid] = Bool(Len(Reported) = 0)

\* a required rule that is reported, next to a required rule whose value is 0
\* or false and is not
C11_Witness ==
    /\ lastOp = "validateSourceData"
    /\ outcome = "returned"
    /\ sourceData = DocV.root
    /\ Len(Reported) > 0
    /\ heap[result.n].props[KValid] = Bool(FALSE)
    /\ \E i \in 1..Len(Mappings) :
          /\ Mappings[i].isRequired
          /\ Mappings[i].sourceField \in {<<"z">>, <<"f">>}
          /\ Str(Mappings[i].sourceField) \notin {Reported[k] : k \in 1..Len(Reported)}

----------------------------------------------------------------------------
(* Properties of the expressions and of the envelope (checked under        *)
(* SpecEnvelope).                                                          *)

\* C12: with the default displayName rule alone, transformToScim on
\* {firstName: "John", lastName: "Doe"} writes displayName = "John Doe": the
\* expression sees the record as source.
C12_SourceBinding ==
    (Returned /\ Mappings = <<DisplayNameRule>>) =>
        getNestedValue(heap, result, KDisplayName).v = Str(John \o <<" ">> \o Doe)

\* C13: a rule with an empty sourceField writes nothing; a rule that extracts
\* undefined writes nothing and its expression is not evaluated; an expression
\* that evaluates to r without error makes the rule write r, or nothing when r
\* is undefined; a rule without expression writes the value it extracted.
\* Boolean(value) on active: 1 writes active: true.
C13_RuleOutcome ==
    Called =>
        \A i \in 1..Len(callLog) :
            /\ Len(Mappings[i].sourceField) = 0 =>
                  ~callLog[i].wrote /\ ~callLog[i].logged
            /\ callLog[i].raw = Undef =>
                  ~callLog[i].wrote /\ ~callLog[i].logged
            /\ (callLog[i].raw # Undef /\ Mappings[i].transformation = "") =>
                  callLog[i].wrote /\ callLog[i].value = callLog[i].raw
            /\ (callLog[i].raw # Undef /\ Mappings[i].transformation # "") =>
                  \E tr \in {EvalTransformation(Mappings[i].transformation,
                                                callLog[i].raw)} :
                      ~tr.err =>
                          /\ ~callLog[i].logged
                          /\ callLog[i].wrote = (tr.v # Undef)
                          /\ callLog[i].wrote => callLog[i].value = tr.v
            /\ Mappings[i] = MappingItem(KActive, KActive, "Boolean(value)") =>
                  /\ callLog[i].wrote /\ callLog[i].value = Bool(TRUE)
                  /\ (Returned /\ Len(Mappings) = 1) =>
                        getNestedValue(heap, result, KActive).v = Bool(TRUE)
            /\ Mappings[i] = MappingItem(KActive, KActive, "undefined") =>
                  /\ ~callLog[i].wrote
                  /\ (Returned /\ Len(Mappings) = 1) =>
                        getNestedValue(heap, result, KActive).v = Undef

\* a constant expression on an absent field that wrote nothing, after
\* Boolean(value) wrote true for active: 1
C13_Witness ==
    /\ Returned
    /\ Mappings = <<MappingItem(KActive, KActive, "Boolean(value)"),
                    MappingItem(KActive, <<"m">>, "true")>>
    /\ callLog[1].wrote /\ callLog[1].value = Bool(TRUE)
    /\ ~callLog[2].wrote
    /\ getNestedValue(heap, result, KActive).v = Bool(TRUE)

\* the rules that share the scimAttribute p and wrote
Writers(p) ==
    {i \in 1..Len(callLog) : Mappings[i].scimAttribute = p /\ callLog[i].wrote}

\* the latest of a non-empty set of rule positions
Latest(is) == CHOOSE j \in is : \A i \in is : i <= j

PlainPath(p) == ~Includes(p, "[") /\ Split(p, ".")[1] # KMeta

Reorderings ==
    {[k \in 1..Len(Mappings) |-> Mappings[f[k]]] :
        f \in {g \in [1..Len(Mappings) -> 1..Len(Mappings)] :
                  \A a, b \in 1..Len(Mappings) : g[a] = g[b] => a = b}}

\* no two rules name the same scimAttribute
DistinctTargets ==
    \A i, j \in 1..Len(Mappings) :
        Mappings[i].scimAttribute = Mappings[j].scimAttribute => i = j

\* C15: with pairwise distinct scimAttributes, transformToScim ends the same
\* way (returns or throws) and returns the same document for the rules in
\* every order.
C15_OrderIndependent ==
    (Called /\ DistinctTargets) =>
        \A mappings \in Reorderings :
            \E ref \in {Rerun(mappings)} :
                /\ ref.err = (outcome = "threw")
                /\ ~ref.err => Deep(heap, result, MaxDepth) = Deep(ref.h, ref.v, MaxDepth)

\* rule i is skipped by transformFromScim on the heap h
Skipped(h, i) ==
    \/ Len(Mappings[i].sourceField) = 0
    \/ Len(Mappings[i].scimAttribute) = 0
    \/ getNestedValue(h, scimDoc, Mappings[i].scimAttribute).v = Undef

RECURSIVE ExpectedSource(_, _, _)
\* the rules from i on, each not skipped writing at its sourceField of obj the
\* value found at its scimAttribute
ExpectedSource(h, obj, i) ==
    IF i > Len(Mappings) THEN Heap(h)
    ELSE IF Skipped(h, i) THEN ExpectedSource(h, obj, i + 1)
    ELSE LET w == setNestedValue(h, obj, Mappings[i].sourceField,
                                 getNestedValue(h, scimDoc, Mappings[i].scimAttribute).v)
         IN IF w.err THEN w ELSE ExpectedSource(w.h, obj, i + 1)

\* the first key of a path: what precedes the first bracket or the first dot
FirstKey(p) ==
    IF Includes(p, "[") THEN SubSeq(p, 1, FirstIndex(p, "[") - 1) ELSE Split(p, ".")[1]

\* C16: transformFromScim returns a fresh object on which each rule that has a
\* sourceField, a scimAttribute and a value at scimAttribute has written that
\* value, as it is, at sourceField; every other rule has written nothing, and
\* no key is there that no rule's sourceField names.
C16_TransformFromScim ==
    lastOp = "transformFromScim" =>
        \E fresh \in {Alloc(pre, ObjNode(EmptyProps))} :
            \E e \in {ExpectedSource(fresh.h, fresh.v, 1)} :
                /\ e.err = (outcome = "threw")
                /\ outcome = "returned" =>
                     /\ result = fresh.v
                     /\ Deep(heap, result, MaxDepth) = Deep(e.h, fresh.v, MaxDepth)
                     /\ DOMAIN heap[result.n].props
                          \subseteq {FirstKey(Mappings[i].sourceField) :
                                        i \in {j \in 1..Len(Mappings) :
                                                  ~Skipped(pre, j)}}
                     /\ Len(Mappings) = 1 =>
                          IF Skipped(pre, 1)
                          THEN heap[result.n].props = EmptyProps
                          ELSE getNestedValue(heap, result, Mappings[1].sourceField).v
                                 = getNestedValue(pre, scimDoc, Mappings[1].scimAttribute).v

\* active: true, written by Boolean(value), comes back as true; the rule
\* without a scimAttribute is skipped although the document holds a value at ""
C16_Witness ==
    /\ lastOp = "transformFromScim"
    /\ outcome = "returned"
    /\ Mappings = <<MappingItem(KActive, KActive, "Boolean(value)"),
                    MappingItem(<<>>, KFirstName, "")>>
    /\ getNestedValue(pre, scimDoc, <<>>).v = Str(John)
    /\ heap[result.n].props = WithProp(EmptyProps, KActive, Bool(TRUE))

\* a call that was handed a resourceType other than User and Group
Unsupported == Called /\ typeArg \notin {UserType, GroupType}

\* C17: a call of transformToScim with an unsupported resourceType throws
\* before a rule is read (nothing logged, no node allocated, nothing returned)
\* and leaves the config as it was; the call that follows it ends as a first
\* call with the same arguments ends, with the same document.
C17_UnsupportedType ==
    /\ [](/\ Unsupported =>
                /\ outcome = "threw"
                /\ callLog = <<>>
                /\ heap = pre
                /\ result = Undef
          /\ lastOp = "transformToScimAgain" =>
                \E ref \in {transformToScim(heap0, config, sourceData, typeArg,
                                            stamps[1], stamps[2])} :
                    /\ ref.err = (outcome = "threw")
                    /\ callLog = ref.log
                    /\ Deep(heap, result, MaxDepth) = Deep(ref.h, ref.v, MaxDepth))
    /\ [][config' = config]_vars

\* a call with User that returned a document with a mapped value, after a call
\* that was rejected
C17_Witness ==
    /\ lastOp = "transformToScimAgain"
    /\ typeArg = UserType
    /\ outcome = "returned"
    /\ \E i \in 1..Len(callLog) : callLog[i].wrote
    /\ getNestedValue(heap, result, KSchemas \o <<"[", "0", "]">>).v = Str(UserSchema)

\* the value of a key of the returned document
Top(key) == GetProp(heap, result, key).v

\* C18: in every returned document schemas is the one-element list holding
\* the schema URI of the resource type, and meta is exactly {resourceType,
\* created, lastModified}, whatever the rules are.
C18_EnvelopeExact ==
    Returned =>
        /\ IsRef(Top(KSchemas))
        /\ heap[Top(KSchemas).n] =
              ArrNode(<<Str(IF typeArg = UserType THEN UserSchema ELSE GroupSchema)>>)
        /\ IsRef(Top(KMeta))
        /\ heap[Top(KMeta).n].kind = "object"
        /\ DOMAIN heap[Top(KMeta).n].props = {KResourceType, KCreated, KLastModified}
        /\ heap[Top(KMeta).n].props[KResourceType] = Str(typeArg)
        /\ heap[Top(KMeta).n].props[KCreated] = IsoString(stamps[1])
        /\ heap[Top(KMeta).n].props[KLastModified] = IsoString(stamps[2])

\* C19: in every returned document meta.created equals meta.lastModified.
C19_OneTimestamp ==
    Returned =>
        getNestedValue(heap, result, KMeta \o <<".">> \o KCreated).v
          = getNestedValue(heap, result, KMeta \o <<".">> \o KLastModified).v

----------------------------------------------------------------------------
(* Properties of the endpoint tester (checked under SpecList). *)

\* a GET has returned an array of records
ListFetched ==
    /\ lastOp = "handleRunTest"
    /\ operation = "get"
    /\ rawData # Null
    /\ IsArray(pre, rawData)

\* the records of the response
Records == pre[rawData.n].elems

\* transformToScim of record i on its own, with the clock readings of its call
Alone(i) ==
    transformToScim(pre, config, Records[i], UserType,
                    stamps[2 * i - 1], stamps[2 * i])

\* the nodes of the list shown
Envelope == heap[testResults.n]
Resources == heap[Envelope.props[KResources].n].elems

\* C20: for a GET that returns an array of n records, either the transform of
\* some record throws, and then the response as fetched is shown with an error
\* and no list; or the list shown has schemas = [ListResponse], totalResults =
\* itemsPerPage = n, and n Resources, the i-th being transformToScim of record
\* i with its own schemas.
C20_ListEnvelope ==
    ListFetched =>
        IF \E i \in 1..Len(Records) : Alone(i).err
        THEN /\ error # Null
             /\ testResults = rawData
             /\ heap[testResults.n] = pre[rawData.n]
        ELSE /\ error = Null
             /\ IsRef(testResults) /\ testResults.n > Len(pre)
             /\ DOMAIN Envelope.props
                  = {KSchemas, KTotalResults, KItemsPerPage, KResources}
             /\ heap[Envelope.props[KSchemas].n] = ArrNode(<<Str(ListResponseSchema)>>)
             /\ Envelope.props[KTotalResults] = Num(Len(Records))
             /\ Envelope.props[KItemsPerPage] = Num(Len(Records))
             /\ Len(Resources) = Len(Records)
             /\ \A i \in 1..Len(Records) :
                   /\ Deep(heap, Resources[i], MaxDepth)
                        = Deep(Alone(i).h, Alone(i).v, MaxDepth)
                   /\ KSchemas \in DOMAIN heap[Resources[i].n].props

\* a list of two records in the order of the response
C20_Witness ==
    /\ ListFetched
    /\ error = Null
    /\ Len(Records) = 2
    /\ Len(Mappings) > 0
    /\ Len(Resources) = 2
    /\ GetProp(heap, Resources[1], KDisplayName).v = Str(John)
    /\ GetProp(heap, Resources[2], KDisplayName).v = Undef
    /\ GetProp(heap, Resources[2], KName).v # Undef

\* two records of which one cannot be transformed: the response is shown
C20_WitnessFailed ==
    /\ ListFetched
    /\ error # Null
    /\ Len(Records) = 2
    /\ ~Alone(1).err /\ Alone(2).err
    /\ testResults = rawData

----------------------------------------------------------------------------
(* Properties of the ApplicationProvider (checked under SpecApps). *)

\* C21: once a deletion is rendered and its effects have run, the deleted
\* application is neither in the list in memory nor in the stored list that a
\* later mount loads.
C21_DeletePermanent ==
    (appMounted /\ appNext = appState) =>
        \A id \in appDeleted :
            /\ id \notin IdsOf(appState.applications)
            /\ id \notin IdsOf(loadApplications)

\* activeApplicationId is null or the id of an application of the list
ActiveValid(st) ==
    st.activeApplicationId = NoId \/ st.activeApplicationId \in IdsOf(st.applications)

\* C25: in every state of the provider, rendered or queued, the active id is
\* null or the id of an application present.
C25_ActiveIdValid == ActiveValid(appState) /\ ActiveValid(appNext)

(***************************************************************************)
(* Validation and presence, checked under SpecRequired.                    *)
(***************************************************************************)

\* validateSourceData(S).valid, S being the record as it was validated
ValidSource ==
    Truthy(GetProp(validateSourceData(heap0, config, sourceData).h,
                   validateSourceData(heap0, config, sourceData).v, KValid).v)

\* C27: if validateSourceData(S) returns valid = true, then in the document
\* transformToScim(S) returns every rule with isRequired = true has a value
\* other than undefined at its scimAttribute path, whatever transformation
\* expressions the rules carry.
C27_ValidImpliesPresent ==
    (lastOp = "transformToScim" /\ outcome = "returned" /\ ValidSource) =>
        \A i \in 1..Len(Mappings) :
            Mappings[i].isRequired =>
                /\ ~getNestedValue(heap, scimDoc, Mappings[i].scimAttribute).err
                /\ getNestedValue(heap, scimDoc, Mappings[i].scimAttribute).v # Undef

(***************************************************************************)
(* The preview and the engine, checked under SpecPreview.                  *)
(***************************************************************************)

\* the document at v, as a tree, without its meta key
ApartFromMeta(v) ==
    [k \in DOMAIN Deep(heap, v, MaxDepth).props \ {KMeta} |->
        Deep(heap, v, MaxDepth).props[k]]

\* C24: for every mapping set, the document generateScimData builds from its
\* sample source has, apart from meta, the same keys and values as
\* transformToScim applied to the same sample source with the same mappings.
C24_PreviewIsEngine ==
    (previewState = "rendered" /\ lastOp = "transformToScim" /\ outcome = "returned") =>
        ApartFromMeta(sampleScimData) = ApartFromMeta(scimDoc)

(***************************************************************************)
(* Claims about SchemaMapper, checked under SpecEditor.                    *)
(***************************************************************************)

\* the required SCIM attributes
RequiredAttributes == {"userName", "name.givenName", "name.familyName", "emails[0].value"}

\* every required attribute is mapped to a non-empty source field
AllRequiredMapped(rows) ==
    \A id \in RequiredAttributes :
        \E i \in 1..Len(rows) : rows[i].scimAttribute = id /\ rows[i].sourceField # ""

\* C23: handleSaveMapping invokes onMappingSave only with a mapping set in
\* which all required SCIM attributes are mapped to a non-empty source field,
\* after any sequence of add, remove and update operations; otherwise it
\* reports 'Missing required mappings' and never calls onMappingSave.
C23_SaveOnlyComplete ==
    \A rows \in saved \cup saving : AllRequiredMapped(rows)

\* C30: starting from the default mapping set, after any sequence of
\* SchemaMapper operations, two within one render included, no two rules in
\* mappings have the same scimAttribute.
C30_UniqueTargets ==
    \A rows \in {mappingRows, nextMappings} :
        \A i \in 1..Len(rows) : \A j \in 1..Len(rows) :
            rows[i].scimAttribute = rows[j].scimAttribute => i = j

\* two operations of one render: the second is rendered, on a table that a
\* field fetch or an add has extended
C30_Witness ==
    /\ edits = MaxEdits
    /\ mappingRows = nextMappings
    /\ Len(mappingRows) > Len(DefaultMappings)
    /\ \E i \in 1..Len(DefaultMappings) :
          mappingRows[i].scimAttribute # DefaultMappings[i].scimAttribute

(***************************************************************************)
(* Claims about Index, checked under SpecIndex.                            *)
(***************************************************************************)

\* C29: isConfigured is true exactly when an API config has been saved and
\* the saved mapping set is non-empty: once handleApiConfigSave and
\* handleMappingSave (with a non-empty set) have both run, in either order,
\* isConfigured is true; and whenever isConfigured is true the scimUtils
\* singleton holds a config.
C29_ConfiguredStatus ==
    (indexMounted /\ indexNext = indexState) =>
        /\ indexState.isConfigured <=>
              (indexState.apiConfig # NoApiConfig /\ Len(indexState.mappings) > 0)
        /\ indexState.isConfigured => config.isSet

(***************************************************************************)
(* Claims about APIService, checked under SpecApi.                         *)
(***************************************************************************)

Finished(k) == calls[k].under # 0 /\ calls[k].pc \in {"returned", "threw"}

\* C28: every fetchData call made while a config is set records exactly one
\* history item, whether the request succeeds, gets a non-2xx response, fails
\* before any response or fails while building the auth headers; the item's
\* success flag is true exactly when the call returns normally, and a failed
\* call throws.
C28_OneEntryPerCall ==
    \A k \in 1..Len(calls) :
        IF Finished(k)
        THEN /\ Len(calls[k].items) = 1
             /\ calls[k].items[1] <=> calls[k].pc = "returned"
        ELSE calls[k].items = <<>>

\* a call that failed while building its auth headers: nothing was sent for
\* it, and it has recorded its one item
C28_Witness ==
    \E k \in 1..Len(calls) :
        /\ Finished(k)
        /\ calls[k].pc = "threw"
        /\ calls[k].sent = <<>>
        /\ calls[k].items = <<FALSE>>
        /\ \E i \in 1..Len(history) : history[i].call = k /\ history[i].status = 0

\* C26: an OAuth token is only sent with a request made under the config
\* whose credentials obtained it, even when a token request started under an
\* earlier config completes after setConfig; and a cached token is reused
\* only while its expiry lies in the future.
C26_TokenOfItsConfig ==
    \A k \in 1..Len(calls) : \A i \in 1..Len(calls[k].sent) :
        /\ calls[k].sent[i].token # 0 => calls[k].sent[i].token = calls[k].sent[i].under
        /\ calls[k].sent[i].cached => calls[k].sent[i].expiry > calls[k].sent[i].at

====
